---- MODULE Spec2Model ----
(***************************************************************************)
(* Model of the streaming and migration core of the Qiskit Code Assistant  *)
(* JupyterLab extension: the notebook migration demultiplexer              *)
(* (service/migration.ts), the inline completion provider's stream         *)
(* sessions (QiskitCompletionProvider.ts), the status bar's active-request *)
(* counter (StatusBarWidget.ts) and the SSE frame decoder (service/api.ts).*)
(*                                                                         *)
(* A JavaScript string is a sequence of one-character strings.             *)
(***************************************************************************)
EXTENDS Integers, Sequences, FiniteSets, TLC

\* ------------------------------------------------------------------ bounds

\* Number of cells of the notebook.
NumCells == 2
\* Largest number of marker-prefixed segments in a migrated response.
MaxSegs == 2
\* Number of streaming fetches (stream tokens) of the inline provider.
MaxSessions == 2
\* Largest number of chunks one streaming completion yields.
MaxChunks == 2
\* Largest number of other requests (non-streaming completion, migration)
\* holding the active-request counter at the same time.
MaxOther == 1
\* Largest number of fragments the reader splits a response body into.
MaxFragments == 3
\* Chunk boundaries of the concurrent migrations lie at multiples of this.
ChunkStep == 10
\* Largest number of chunks appended to a buffer whose length is followed.
MaxAppends == 4

\* ------------------------------------------------------------ JS strings

WhiteSpace == {" ", "\n", "\t"}
Digits == {"0", "1", "2", "3", "4", "5", "6", "7", "8", "9"}

DigitVal(c) ==
    CASE c = "0" -> 0 [] c = "1" -> 1 [] c = "2" -> 2 [] c = "3" -> 3
      [] c = "4" -> 4 [] c = "5" -> 5 [] c = "6" -> 6 [] c = "7" -> 7
      [] c = "8" -> 8 [] c = "9" -> 9

DigitChar(n) ==
    CASE n = 0 -> "0" [] n = 1 -> "1" [] n = 2 -> "2" [] n = 3 -> "3"
      [] n = 4 -> "4" [] n = 5 -> "5" [] n = 6 -> "6" [] n = 7 -> "7"
      [] n = 8 -> "8" [] n = 9 -> "9"

\* Number.prototype.toString for a non-negative integer.
RECURSIVE NumToString(_)
NumToString(n) ==
    IF n < 10 THEN <<DigitChar(n)>>
    ELSE NumToString(n \div 10) \o <<DigitChar(n % 10)>>

\* parseInt(s, 10) of a non-empty run of decimal digits.
RECURSIVE ParseInt(_)
ParseInt(s) ==
    IF Len(s) = 0 THEN 0
    ELSE 10 * ParseInt(SubSeq(s, 1, Len(s) - 1)) + DigitVal(s[Len(s)])

\* String.prototype.substring(from) and substring(from, to), 0-based.
Substring(s, from) == SubSeq(s, from + 1, Len(s))
Substring2(s, from, to) == SubSeq(s, from + 1, to)

\* String.prototype.trimStart, trimEnd and trim.
RECURSIVE TrimStart(_)
TrimStart(s) ==
    IF Len(s) = 0 \/ s[1] \notin WhiteSpace THEN s ELSE TrimStart(Tail(s))

RECURSIVE TrimEnd(_)
TrimEnd(s) ==
    IF Len(s) = 0 \/ s[Len(s)] \notin WhiteSpace THEN s
    ELSE TrimEnd(SubSeq(s, 1, Len(s) - 1))

Trim(s) == TrimEnd(TrimStart(s))

\* s.startsWith(p) at 0-based offset k.
StartsWithAt(s, p, k) ==
    /\ k + Len(p) <= Len(s)
    /\ \A i \in 1..Len(p) : s[k + i] = p[i]

\* --------------------------------------------------------- cell markers

\* const NB_CELL_MARKER_PREFIX = '### Notebook_Cell_'
NB_CELL_MARKER_PREFIX ==
    <<"#", "#", "#", " ", "N", "o", "t", "e", "b", "o", "o", "k", "_",
      "C", "e", "l", "l", "_">>

\* Length of the maximal run of digits of s that starts at 0-based offset k.
RECURSIVE DigitRun(_, _)
DigitRun(s, k) ==
    IF k < Len(s) /\ s[k + 1] \in Digits THEN 1 + DigitRun(s, k + 1) ELSE 0

\* NB_CELL_ID_REGEX = /### Notebook_Cell_\d+\n/ matched at 0-based offset k:
\* the length of the match, or 0 when it does not match there.
CellIdMatchLen(s, k) ==
    IF StartsWithAt(s, NB_CELL_MARKER_PREFIX, k)
    THEN LET p == k + Len(NB_CELL_MARKER_PREFIX)
             d == DigitRun(s, p)
         IN  IF d > 0 /\ p + d < Len(s) /\ s[p + d + 1] = "\n"
             THEN Len(NB_CELL_MARKER_PREFIX) + d + 1
             ELSE 0
    ELSE 0

\* s.search(NB_CELL_ID_REGEX): 0-based offset of the first match, or -1.
SearchCellId(s) ==
    LET hits == {k \in 0..(Len(s) - 1) :
                   s[k + 1] = "#" /\ CellIdMatchLen(s, k) > 0}
    IN  IF hits = {} THEN -1
        ELSE CHOOSE k \in hits : \A j \in hits : k <= j

\* A segment left with its marker line.
KeepCellId(s) == s

\* s.replace(NB_CELL_ID_REGEX, ''): the first match removed.
ReplaceCellId(s) ==
    LET k == SearchCellId(s)
    IN  IF k = -1 THEN s
        ELSE Substring2(s, 0, k) \o Substring(s, k + CellIdMatchLen(s, k))

\* A parse that fails on every marker.
neverParses(content) == -1

\* parseCellIndex: NB_CELL_INDEX_REGEX = /^### Notebook_Cell_(\d+)/, then
\* parseInt of the captured digits. null is represented by -1 (a captured
\* index is never negative).
parseCellIndex(content) ==
    IF StartsWithAt(content, NB_CELL_MARKER_PREFIX, 0)
       /\ DigitRun(content, Len(NB_CELL_MARKER_PREFIX)) > 0
    THEN ParseInt(SubSeq(content, Len(NB_CELL_MARKER_PREFIX) + 1,
                         Len(NB_CELL_MARKER_PREFIX)
                           + DigitRun(content, Len(NB_CELL_MARKER_PREFIX))))
    ELSE -1

\* s.split(NB_CELL_MARKER_REGEX), NB_CELL_MARKER_REGEX being the lookahead
\* /(?=### Notebook_Cell_\d+\n)/: s is cut before every marker that does not
\* start at offset 0 of the piece being scanned.
RECURSIVE SplitAtMarkers(_)
SplitAtMarkers(s) ==
    LET hits == {k \in 1..(Len(s) - 1) : CellIdMatchLen(s, k) > 0}
    IN  IF hits = {} THEN <<s>>
        ELSE LET k == CHOOSE h \in hits : \A j \in hits : h <= j
             IN  <<Substring2(s, 0, k)>> \o SplitAtMarkers(Substring(s, k))

\* --------------------------------------------------------- cells and map

CellIndices == 0..(NumCells - 1)

\* cellContentMap.get(i) || ''
MapGet(m, i) == IF i \in DOMAIN m THEN m[i] ELSE <<>>

\* cellContentMap.set(i, v)
MapSet(m, i, v) ==
    [k \in (DOMAIN m) \cup {i} |-> IF k = i THEN v ELSE m[k]]

\* updateCellSafely without its bounds check.
updateCellUnchecked(cs, index, content) ==
    [cells |-> [k \in (DOMAIN cs) \cup {index} |->
                  IF k = index THEN content ELSE cs[k]],
     wrote |-> <<[index |-> index, content |-> content]>>]

\* updateCellSafely(cells, index, content): the cells after the call and the
\* setSource calls it made (at most one), as <<index, content>> pairs.
updateCellSafely(cs, index, content) ==
    IF index >= 0 /\ index < Cardinality(DOMAIN cs)
    THEN [cells |-> [cs EXCEPT ![index] = content],
          wrote |-> <<[index |-> index, content |-> content]>>]
    ELSE [cells |-> cs, wrote |-> <<>>]

\* ------------------------------------------------ the demultiplexer's steps

\* The loop "while (markerPos !== -1)" of notebookMigrationStreaming, on the
\* record d of its locals (currentCellIndex, buffer, cellContentMap), the
\* cells and the setSource calls made so far (writes).
RECURSIVE MarkerLoop(_)
MarkerLoop(d) ==
    LET markerPos == SearchCellId(d.buffer)
    IN  IF markerPos = -1 THEN d
        ELSE
          LET cur == d.currentCellIndex
              \* Save previous cell content if exists
              map2 == IF cur # -1
                      THEN MapSet(d.cellContentMap, cur,
                                  MapGet(d.cellContentMap, cur)
                                    \o Substring2(d.buffer, 0, markerPos))
                      ELSE d.cellContentMap
              upd == IF cur # -1
                     THEN updateCellSafely(d.cells, cur, MapGet(map2, cur))
                     ELSE [cells |-> d.cells, wrote |-> <<>>]
              newIndex == parseCellIndex(Substring(d.buffer, markerPos))
          IN  IF newIndex # -1
              THEN MarkerLoop(
                     [currentCellIndex |-> newIndex,
                      buffer |-> TrimStart(ReplaceCellId(
                                   Substring(d.buffer, markerPos))),
                      cellContentMap |-> map2,
                      cells |-> upd.cells,
                      writes |-> d.writes \o upd.wrote])
              ELSE \* 'Failed to parse cell index from marker': break
                   [d EXCEPT !.cellContentMap = map2, !.cells = upd.cells,
                             !.writes = d.writes \o upd.wrote]

\* The body of the "for await" loop of notebookMigrationStreaming for one
\* valid chunk: append to the buffer, run the marker loop, then push the
\* partial content of the current cell.
ProcessChunk(d, migratedCode) ==
    LET e == MarkerLoop([d EXCEPT !.buffer = d.buffer \o migratedCode])
    IN  IF e.currentCellIndex # -1 /\ Len(e.buffer) > 0
        THEN LET upd == updateCellSafely(
                          e.cells, e.currentCellIndex,
                          MapGet(e.cellContentMap, e.currentCellIndex)
                            \o e.buffer)
             IN  [e EXCEPT !.cells = upd.cells, !.writes = e.writes \o upd.wrote]
        ELSE e

\* "Finalize the last cell" after the loop of notebookMigrationStreaming.
FinalizeLastCell(d) ==
    IF d.currentCellIndex # -1 /\ Len(Trim(d.buffer)) > 0
    THEN LET map2 == MapSet(d.cellContentMap, d.currentCellIndex,
                            MapGet(d.cellContentMap, d.currentCellIndex)
                              \o d.buffer)
             upd == updateCellSafely(d.cells, d.currentCellIndex,
                                     MapGet(map2, d.currentCellIndex))
         IN  [d EXCEPT !.cellContentMap = map2, !.cells = upd.cells,
                       !.writes = d.writes \o upd.wrote]
    ELSE d

\* The locals of notebookMigrationStreaming before the first chunk.
DemuxStart(cs) ==
    [currentCellIndex |-> -1, buffer |-> <<>>, cellContentMap |-> <<>>,
     cells |-> cs, writes |-> <<>>]

\* notebookMigrationStreaming run to the end over a sequence of chunks.
RECURSIVE StreamChunks(_, _)
StreamChunks(d, chunks) ==
    IF Len(chunks) = 0 THEN d
    ELSE StreamChunks(ProcessChunk(d, Head(chunks)), Tail(chunks))

StreamAll(cs, chunks) == FinalizeLastCell(StreamChunks(DemuxStart(cs), chunks))

\* The loop over the split response of notebookMigration (non-streaming).
RECURSIVE ApplySegments(_, _)
ApplySegments(r, migratedCodeCells) ==
    IF Len(migratedCodeCells) = 0 THEN r
    ELSE LET seg == Head(migratedCodeCells)
             cellIndex == parseCellIndex(seg)
             upd == IF cellIndex # -1
                    THEN updateCellSafely(r.cells, cellIndex, ReplaceCellId(seg))
                    ELSE [cells |-> r.cells, wrote |-> <<>>]
         IN  ApplySegments([cells |-> upd.cells, writes |-> r.writes \o upd.wrote],
                           Tail(migratedCodeCells))

\* ------------------------------------------------ the migration's inputs

\* The cell migrateNotebookCell is called on (notebookTracker.activeCell).
ActiveCell == 0

\* The sources of the notebook's cells before the migration: non-empty code.
InitCells == [i \in CellIndices |-> <<"x">>]

\* Indices a marker of the response may carry: NumCells is out of range.
MarkerIndices == 0..NumCells

\* `${NB_CELL_MARKER_PREFIX}${cellIndex}\n`
Marker(i) == NB_CELL_MARKER_PREFIX \o NumToString(i) \o <<"\n">>

\* Texts that may follow a marker, and texts that may precede the first one.
Bodies == {<<"a", "\n">>, <<" ", "b">>, <<>>}
Preambles == {<<>>, <<"z">>}

RECURSIVE Join(_, _)
\* Array.prototype.join(sep)
Join(parts, sep) ==
    IF Len(parts) = 0 THEN <<>>
    ELSE IF Len(parts) = 1 THEN parts[1]
    ELSE parts[1] \o sep \o Join(Tail(parts), sep)

\* codeCells of migrateNotebook: every valid code cell, prefixed by its marker.
RECURSIVE CodeCellsFrom(_, _)
CodeCellsFrom(cs, cellIndex) ==
    IF cellIndex >= NumCells THEN <<>>
    ELSE (IF Len(Trim(cs[cellIndex])) > 0
          THEN <<Marker(cellIndex) \o cs[cellIndex]>> ELSE <<>>)
         \o CodeCellsFrom(cs, cellIndex + 1)

\* combinedCode = codeCellsText.join('\n\n')
CombinedCode(cs) == Join(CodeCellsFrom(cs, 0), <<"\n", "\n">>)

\* Responses of at most n marker-prefixed segments.
RECURSIVE SegResponses(_)
SegResponses(n) ==
    IF n = 0 THEN Preambles
    ELSE LET prev == SegResponses(n - 1)
         IN  prev \cup {r \o Marker(i) \o b :
                          r \in prev, i \in MarkerIndices, b \in Bodies}

\* What the service may answer to a notebook migration: marker-prefixed
\* segments, or the request itself (with or without surrounding whitespace).
NotebookResponses ==
    SegResponses(MaxSegs)
      \cup {CombinedCode(InitCells), CombinedCode(InitCells) \o <<"\n">>}

\* What the service may answer to a single-cell migration.
CellResponses ==
    {<<>>, <<"x">>, <<"x", "\n">>, <<" ", "x">>, <<"y">>, <<"y", " ", "w">>,
     <<"\n", "y", "\n">>}

\* ------------------------------------------------------ status bar widget

\* StatusBarWidget.setLoadingStatus: this._activeRequestCount++
setLoadingStatus(count) == count + 1

\* StatusBarWidget.stopLoadingStatus:
\* this._activeRequestCount = Math.max(0, this._activeRequestCount - 1)
stopLoadingStatus(count) == IF count - 1 > 0 THEN count - 1 ELSE 0

\* ------------------------------------------------------------------ state

VARIABLES
    \* StatusBarWidget._activeRequestCount
    activeRequestCount,
    \* --- one migrateNotebookCell / migrateNotebook call
    cells,              \* source of every cell of the notebook
    migKind,            \* "cell" (migrateNotebookCell) or "notebook"
    migStream,          \* the stream argument (settings' enableStreaming)
    response,           \* the migrated code the service answers with
    pos,                \* how much of it has been delivered as chunks
    mpc,                \* "confirm", "declined", "running", "done"
    currentCellIndex,   \* locals of notebookMigrationStreaming
    buffer,
    cellContentMap,
    hasReceivedData,
    fullMigratedCode,   \* also migratedCode of cellMigrationStreaming
    clearedCell,        \* locals of cellMigrationStreaming
    hasContent,
    lastWrites,         \* the setSource calls of the last step, in order
    written,            \* indices of the cells this migration has written
    outcome,            \* "none", "success", "nothing_to_migrate",
                        \* "no_code_received", "error"
    segOwner,           \* SegOwner of the response (fixed by the response)
    shadow              \* the demultiplexer fed the response without its
                        \* out-of-range segments, in lockstep

migVars ==
    <<cells, migKind, migStream, response, pos, mpc, currentCellIndex, buffer,
      cellContentMap, hasReceivedData, fullMigratedCode, clearedCell,
      hasContent, lastWrites, written, outcome, segOwner, shadow>>

VARIABLES
    \* --- QiskitInlineCompletionProvider and its streaming sessions
    streamPromises,     \* keys of _streamPromises (stream tokens)
    aborted,            \* token -> its abortController.signal.aborted
    timerArmed,         \* token -> its timeoutId is pending
    created,            \* number of streaming fetches so far (last token)
    genPc,              \* token -> position of its autoCompleteStreaming
                        \* generator: "created", "token", "streaming", "done"
    strmPc,             \* token -> position of stream(token): "none",
                        \* "running", "done", "notfound"
    chunks,             \* token -> chunks its generator has yielded
    otherInFlight,      \* other requests holding the counter
    decs,               \* token -> decrements of the counter made for it
    teardowns,          \* token -> runs of its cleanup code
    lastOp,             \* the provider operation of the last step
    \* --- one postModelPromptStreaming call
    sseFragments,       \* fragments the reader has still to return
    sseBuffer,          \* buffer
    sseLines,           \* lines of the current fragment still to process
    ssePc,              \* "request", "read", "yielded", "yieldedLast", "done"
    sseAborted,         \* signal.aborted
    sseDelivered,       \* frames yielded to the consumer so far
    sseEnd,             \* "none", "complete", "AbortError", "NetworkError",
                        \* "Error", "TypeError"
    sseText,            \* the whole response body
    sseInput,           \* the fragments the reader will have returned
    ssePending,         \* the bytes the TextDecoder holds back
    \* --- migrateNotebook calls over one notebook (they share cells)
    migs                \* call -> its position and locals

VARIABLES
    \* --- lengths of an accumulation buffer over one stream
    bufWho,             \* "decoder" (postModelPromptStreaming) or
                        \* "demultiplexer" (notebookMigrationStreaming)
    bufLen,             \* buffer.length
    bufPc,              \* "streaming", "failed", "ended"
    bufAppends          \* chunks received so far

\* The status bar widget (with activeRequestCount).
VARIABLES
    sbModel,            \* getCurrentModel(): "none" or a model's name
    sbHtml,             \* _statusBar.innerHTML: [text, spinners]
    sbCalls             \* the calls made so far

\* The migration's notifications and its use of the status bar.
VARIABLES
    migFault,           \* what goes wrong in this run: "none", "null_cell",
                        \* "invalid_cell", "token", "stream", "overflow"
    progress,           \* the progress notification displayed: "none",
                        \* "planning", "reviewing", "returning"
    stacked,            \* an error notification was shown over a progress
                        \* notification
    migIncs,            \* setLoadingStatus calls of the migration
    migDecs             \* stopLoadingStatus calls of the migration

\* The chunks of one streaming cell migration.
VARIABLES
    chunkQueue,         \* the chunks postMigrationStreaming has still to yield
    chunkSeen           \* the chunks it has yielded so far

\* The notebook of one migrateNotebook call: cells[i] is the source of
\* notebook.content.widgets[i].
VARIABLES
    cellIds,            \* position -> the cell (widget) at that position
    cellTypes,          \* position -> model.type of the cell there
    sentIds,            \* position -> the cell there when codeCells was built
    nbRequest,          \* codeCells
    nbEdits             \* cells inserted, deleted or moved by the user

\* One completion of the inline provider, from fetch to its last item.
VARIABLES
    cMode,              \* "stream" (enableStreaming) or "batch"
    cPc,                \* what the completion awaits: "token", "disclaimer",
                        \* "request", "read"; or "done"
    cQueue,             \* the chunks the service has still to send
    cSeen,              \* the chunks received so far
    cItems,             \* what autoCompleteStreaming has yielded, or the
                        \* value autoComplete resolved with
    cThrown,            \* the error autoComplete(Streaming) let escape
    cCause,             \* why the completion ended
    cRaised,            \* the error requestAPIStreaming threw
    textParts,          \* textParts of stream()
    cEmitted,           \* the insertText of the items stream() has emitted
    prompt_id,          \* QiskitInlineCompletionProvider.prompt_id
    cAccepted,          \* the prompt ids postModelPromptAccept was sent
    cLock,              \* the reader lock: [acquired, released]
    cNotes,             \* Notification.error calls of the completion
    lastPrompt          \* the module's lastPrompt: <<>> undefined, or <<item>>

provVars ==
    <<streamPromises, aborted, timerArmed, created, genPc, strmPc, chunks,
      otherInFlight, decs, teardowns, lastOp>>

sseVars ==
    <<sseFragments, sseBuffer, sseLines, ssePc, sseAborted, sseDelivered,
      sseEnd, sseText, sseInput, ssePending>>

\* migVars without the cells of the notebook
migLocals ==
    <<migKind, migStream, response, pos, mpc, currentCellIndex, buffer,
      cellContentMap, hasReceivedData, fullMigratedCode, clearedCell,
      hasContent, lastWrites, written, outcome, segOwner, shadow>>

bufVars == <<bufWho, bufLen, bufPc, bufAppends>>

\* The components added to the four above.
sbVars == <<sbModel, sbHtml, sbCalls>>

noteVars == <<migFault, progress, stacked, migIncs, migDecs>>

cellVars == <<chunkQueue, chunkSeen>>

nbVars == <<cellIds, cellTypes, sentIds, nbRequest, nbEdits>>

compVars ==
    <<cMode, cPc, cQueue, cSeen, cItems, cThrown, cCause, cRaised, textParts,
      cEmitted, prompt_id, cAccepted, cLock, cNotes, lastPrompt>>

\* The components added after the migration's notifications.
\* The timeout of a streaming completion.
VARIABLES
    tLength,            \* text.length of the text fetch was called with
    tTimeout            \* the delay setTimeout was armed with, 0: not armed

timeoutVars == <<tLength, tTimeout>>

\* One prompt: the text submitted and the item made of a chunk.
VARIABLES
    pText,              \* the text autoComplete(Streaming) is called with
    pRequest,           \* the request submitted to the service, if any
    pChunk,             \* the chunk the service answers with
    pItem               \* what promptPromiseStreaming made of the chunk

promptVars == <<pText, pRequest, pChunk, pItem>>

\* Calls of autoComplete, one after another or overlapping.
VARIABLES
    acPc,                       \* where each call stands
    acResult,                   \* what each call resolved with
    activeRequestController,    \* the call whose controller is stored, 0: null
    acAborted,                  \* the calls whose controller was aborted
    acOther                     \* the other requests in flight (a migration)

autoVars == <<acPc, acResult, activeRequestController, acAborted, acOther>>

\* The listeners of QiskitInlineCompletionProvider.
VARIABLES
    focusTimers,        \* pending 100 ms timers armed by _onFocusOut
    currentNotebook,    \* _currentNotebook, 0: null
    disposed            \* dispose() has removed the listeners

listenerVars == <<focusTimers, currentNotebook, disposed>>

\* The marker loop of notebookMigrationStreaming, one iteration at a time.
VARIABLES
    lpD,                \* the locals of the function, the cells, the writes
    lpStart,            \* lpD when the loop of the current chunk began
    lpPc,               \* "await", "loop", "broke", "ended"
    lpIters,            \* iterations of the loop for the current chunk
    lpChunks            \* chunks received

loopVars == <<lpD, lpStart, lpPc, lpIters, lpChunks>>

lastVars == <<promptVars, autoVars, listenerVars, loopVars>>

lateVars == <<cellVars, nbVars, compVars, timeoutVars, lastVars>>

restVars == <<bufVars, sbVars, noteVars, lateVars>>

vars == <<activeRequestCount, migVars, provVars, sseVars, migs, restVars>>

\* ---------------------------------------- segments of a combined response

\* For every character of s from 0-based offset k on, the index of the marker
\* whose segment it lies in (the marker's own characters included), cur
\* being the index in force at offset k: -1 before the first marker.
RECURSIVE SegOwner(_, _, _)
SegOwner(s, k, cur) ==
    IF k >= Len(s) THEN <<>>
    ELSE LET m == CellIdMatchLen(s, k)
         IN  IF m > 0
             THEN LET idx == parseCellIndex(Substring(s, k))
                  IN  [i \in 1..m |-> idx] \o SegOwner(s, k + m, idx)
             ELSE <<cur>> \o SegOwner(s, k + 1, cur)

\* Characters from+1..to of s that lie in no out-of-range segment.
RECURSIVE KeepInRange(_, _, _, _)
KeepInRange(s, owner, from, to) ==
    IF from >= to THEN <<>>
    ELSE (IF owner[from + 1] < NumCells THEN <<s[from + 1]>> ELSE <<>>)
         \o KeepInRange(s, owner, from + 1, to)

\* s without its out-of-range segments.
WithoutOutOfRange(s) == KeepInRange(s, SegOwner(s, 0, -1), 0, Len(s))

HasOutOfRange(s) == \E i \in 1..Len(s) : SegOwner(s, 0, -1)[i] >= NumCells

\* --------------------------------------------------------------- migration

\* MigrationNotificationManager: the notification it displays.
NOTIFICATION_THRESHOLD_CELL == 50
NOTIFICATION_THRESHOLD_NOTEBOOK == 100

showPlanning == "planning"

updateToReviewing(shown, contentLength) ==
    IF shown = "planning" /\ contentLength > 0 THEN "reviewing" ELSE shown

updateToReturning(shown, contentLength, threshold) ==
    IF shown = "reviewing" /\ contentLength > threshold THEN "returning"
    ELSE shown

dismiss(shown) == "none"

\* The notifications of a chunk that arrives when the content has the
\* length contentLength.
ProgressOnChunk(shown, contentLength, threshold) ==
    updateToReturning(updateToReviewing(shown, contentLength),
                      contentLength, threshold)

\* Notification.error while the notification shown is displayed.
ErrorOver(shown) == stacked \/ shown # "none"

\* withLoadingStatus whose stopLoadingStatus runs only when the operation
\* did not throw.
stopUnlessThrown(st, threw) ==
    IF threw THEN st
    ELSE [count |-> stopLoadingStatus(st.count), stops |-> st.stops + 1]

\* withLoadingStatus, its finally block: st is [count, stops].
withLoadingStatusFinally(st, threw) ==
    [count |-> stopLoadingStatus(st.count), stops |-> st.stops + 1]

\* The finally block after the operation of this migration.
ExitLoading(threw) ==
    \E st \in {withLoadingStatusFinally(
                  [count |-> activeRequestCount, stops |-> migDecs], threw)} :
        /\ activeRequestCount' = st.count
        /\ migDecs' = st.stops

Demux ==
    [currentCellIndex |-> currentCellIndex, buffer |-> buffer,
     cellContentMap |-> cellContentMap, cells |-> cells, writes |-> <<>>]

WrittenBy(writes) == {writes[i].index : i \in 1..Len(writes)}

MigInit ==
    /\ cells = InitCells
    /\ migKind \in {"cell", "notebook"}
    /\ migStream \in BOOLEAN
    /\ response \in (IF migKind = "cell" THEN CellResponses
                     ELSE NotebookResponses)
    /\ pos = 0
    /\ mpc = "confirm"
    /\ currentCellIndex = -1
    /\ buffer = <<>>
    /\ cellContentMap = <<>>
    /\ hasReceivedData = FALSE
    /\ fullMigratedCode = <<>>
    /\ clearedCell = FALSE
    /\ hasContent = FALSE
    /\ lastWrites = <<>>
    /\ written = {}
    /\ outcome = "none"
    /\ segOwner = SegOwner(response, 0, -1)
    /\ shadow = DemuxStart(InitCells)

\* showMigrationConfirmation answered 'No': nothing happens.
MigDecline ==
    /\ mpc = "confirm"
    /\ migFault # "null_cell"
    /\ mpc' = "declined"
    /\ UNCHANGED <<activeRequestCount, cells, migKind, migStream, response,
                   pos, currentCellIndex, buffer, cellContentMap,
                   hasReceivedData, fullMigratedCode, clearedCell, hasContent,
                   lastWrites, written, outcome, segOwner,
                   shadow>>
    /\ UNCHANGED noteVars
    /\ UNCHANGED <<provVars, sseVars, migs, bufVars, sbVars, lateVars>>

\* showMigrationConfirmation answered 'Yes': withLoadingStatus starts the
\* operation (setLoadingStatus), which awaits checkAPIToken.
MigAccept ==
    /\ mpc = "confirm"
    /\ migFault \notin {"null_cell", "invalid_cell"}
    /\ mpc' = "token"
    /\ migIncs' = migIncs + 1
    /\ activeRequestCount' = setLoadingStatus(activeRequestCount)
    /\ UNCHANGED <<cells, migKind, migStream, response, pos, currentCellIndex,
                   buffer, cellContentMap, hasReceivedData, fullMigratedCode,
                   clearedCell, hasContent, lastWrites, written, outcome,
                   segOwner, shadow>>
    /\ UNCHANGED <<migFault, progress, stacked, migDecs>>
    /\ UNCHANGED <<provVars, sseVars, migs, bufVars, sbVars, lateVars>>

\* checkAPIToken resolves: the migration function starts, a streaming one
\* with showPlanning, and the request is sent.
MigTokenOk ==
    /\ mpc = "token"
    /\ migFault # "token"
    /\ mpc' = "running"
    /\ progress' = IF migStream THEN showPlanning ELSE progress
    /\ UNCHANGED <<activeRequestCount, cells, migKind, migStream, response,
                   pos, currentCellIndex, buffer, cellContentMap,
                   hasReceivedData, fullMigratedCode, clearedCell, hasContent,
                   lastWrites, written, outcome, segOwner, shadow>>
    /\ UNCHANGED <<migFault, stacked, migIncs, migDecs>>
    /\ UNCHANGED <<provVars, sseVars, migs, bufVars, sbVars, lateVars>>

\* cellMigration: the whole response arrives; then withLoadingStatus's finally.
CellMigration ==
    /\ mpc = "running" /\ migKind = "cell" /\ ~migStream
    /\ LET code == cells[ActiveCell]
       IN  IF Len(response) = 0
           THEN \* validateMigrationResponse throws
                /\ outcome' = "error"
                /\ UNCHANGED cells
                /\ lastWrites' = <<>>
           ELSE IF Trim(response) = Trim(code)
           THEN /\ outcome' = "nothing_to_migrate"
                /\ UNCHANGED cells
                /\ lastWrites' = <<>>
           ELSE /\ outcome' = "success"
                /\ cells' = [cells EXCEPT ![ActiveCell] = response]
                /\ lastWrites' = <<[index |-> ActiveCell, content |-> response]>>
    /\ written' = written \cup WrittenBy(lastWrites')
    /\ fullMigratedCode' = response
    /\ pos' = Len(response)
    /\ mpc' = "done"
    /\ ExitLoading(outcome' = "error")
    /\ stacked' = IF outcome' = "error" THEN ErrorOver(progress) ELSE stacked
    /\ UNCHANGED <<migKind, migStream, response, currentCellIndex, buffer,
                   cellContentMap, hasReceivedData, clearedCell, hasContent,
                   segOwner, shadow>>
    /\ UNCHANGED <<migFault, progress, migIncs>>
    /\ UNCHANGED <<provVars, sseVars, migs, bufVars, sbVars, lateVars>>

\* notebookMigration: the whole response arrives, is split at the markers and
\* applied; then withLoadingStatus's finally.
NotebookMigration ==
    /\ mpc = "running" /\ migKind = "notebook" /\ ~migStream
    /\ LET combinedCode == CombinedCode(cells)
           applied == ApplySegments([cells |-> cells, writes |-> <<>>],
                                    SplitAtMarkers(response))
       IN  IF Len(response) = 0
           THEN /\ outcome' = "error"
                /\ UNCHANGED cells
                /\ lastWrites' = <<>>
           ELSE IF Trim(response) = Trim(combinedCode)
           THEN /\ outcome' = "nothing_to_migrate"
                /\ UNCHANGED cells
                /\ lastWrites' = <<>>
           ELSE /\ outcome' = "success"
                /\ cells' = applied.cells
                /\ lastWrites' = applied.writes
    /\ written' = written \cup WrittenBy(lastWrites')
    /\ fullMigratedCode' = response
    /\ pos' = Len(response)
    /\ mpc' = "done"
    /\ ExitLoading(FALSE)
    /\ stacked' = IF outcome' = "error" THEN ErrorOver(progress) ELSE stacked
    /\ UNCHANGED <<migKind, migStream, response, currentCellIndex, buffer,
                   cellContentMap, hasReceivedData, clearedCell, hasContent,
                   segOwner, shadow>>
    /\ UNCHANGED <<migFault, progress, migIncs>>
    /\ UNCHANGED <<provVars, sseVars, migs, bufVars, sbVars, lateVars>>

\* cellMigrationStreaming: one chunk of n characters arrives.
CellChunk(n) ==
    /\ mpc = "running" /\ migKind = "cell" /\ migStream
    /\ pos + n <= Len(response)
    /\ LET chunk == SubSeq(response, pos + 1, pos + n)
           cleared == IF ~clearedCell
                      THEN <<[index |-> ActiveCell, content |-> <<>>]>>
                      ELSE <<>>
           base == IF ~clearedCell THEN <<>> ELSE cells[ActiveCell]
       IN  /\ cells' = [cells EXCEPT ![ActiveCell] = base \o chunk]
           /\ lastWrites' = cleared
                 \o <<[index |-> ActiveCell, content |-> base \o chunk]>>
           /\ fullMigratedCode' = fullMigratedCode \o chunk
    /\ clearedCell' = TRUE
    /\ progress' = ProgressOnChunk(progress, Len(fullMigratedCode),
                                 NOTIFICATION_THRESHOLD_CELL)
    /\ hasContent' = TRUE
    /\ written' = written \cup {ActiveCell}
    /\ pos' = pos + n
    /\ UNCHANGED <<activeRequestCount, migKind, migStream, response, mpc,
                   currentCellIndex, buffer, cellContentMap, hasReceivedData,
                   outcome, segOwner, shadow>>
    /\ UNCHANGED <<migFault, stacked, migIncs, migDecs>>
    /\ UNCHANGED <<provVars, sseVars, migs, bufVars, sbVars, lateVars>>

\* cellMigrationStreaming: the stream ends; then withLoadingStatus's finally.
CellStreamEnd ==
    /\ mpc = "running" /\ migKind = "cell" /\ migStream
    /\ pos = Len(response)
    /\ outcome' = IF ~hasContent THEN "no_code_received" ELSE "success"
    /\ lastWrites' = <<>>
    /\ mpc' = "done"
    /\ progress' = dismiss(progress)
    /\ ExitLoading(FALSE)
    /\ UNCHANGED <<cells, migKind, migStream, response, pos, currentCellIndex,
                   buffer, cellContentMap, hasReceivedData, fullMigratedCode,
                   clearedCell, hasContent, written, segOwner,
                   shadow>>
    /\ UNCHANGED <<migFault, stacked, migIncs>>
    /\ UNCHANGED <<provVars, sseVars, migs, bufVars, sbVars, lateVars>>

\* notebookMigrationStreaming: one chunk of n characters arrives.
NotebookChunk(n) ==
    /\ mpc = "running" /\ migKind = "notebook" /\ migStream
    /\ pos + n <= Len(response)
    /\ \E chunk \in {SubSeq(response, pos + 1, pos + n)} :
       \E d \in {ProcessChunk(Demux, chunk)} :
           /\ currentCellIndex' = d.currentCellIndex
           /\ buffer' = d.buffer
           /\ cellContentMap' = d.cellContentMap
           /\ cells' = d.cells
           /\ lastWrites' = d.writes
           /\ written' = written \cup WrittenBy(d.writes)
           /\ fullMigratedCode' = fullMigratedCode \o chunk
           /\ shadow' = [ProcessChunk(shadow,
                           KeepInRange(response, segOwner, pos, pos + n))
                         EXCEPT !.writes = <<>>]
    /\ hasReceivedData' = TRUE
    /\ progress' = ProgressOnChunk(progress, Len(fullMigratedCode),
                                 NOTIFICATION_THRESHOLD_NOTEBOOK)
    /\ pos' = pos + n
    /\ UNCHANGED <<activeRequestCount, migKind, migStream, response, mpc,
                   clearedCell, hasContent, outcome, segOwner>>
    /\ UNCHANGED <<migFault, stacked, migIncs, migDecs>>
    /\ UNCHANGED <<provVars, sseVars, migs, bufVars, sbVars, lateVars>>

\* notebookMigrationStreaming: the stream ends, the last cell is finalized;
\* then withLoadingStatus's finally.
NotebookStreamEnd ==
    /\ mpc = "running" /\ migKind = "notebook" /\ migStream
    /\ pos = Len(response)
    /\ \E d \in {FinalizeLastCell(Demux)} :
           /\ cellContentMap' = d.cellContentMap
           /\ cells' = d.cells
           /\ lastWrites' = d.writes
           /\ written' = written \cup WrittenBy(d.writes)
           /\ shadow' = [FinalizeLastCell(shadow) EXCEPT !.writes = <<>>]
    /\ outcome' = IF ~hasReceivedData THEN "error" ELSE "success"
    /\ mpc' = "done"
    /\ progress' = dismiss(progress)
    /\ stacked' = IF ~hasReceivedData THEN ErrorOver(progress') ELSE stacked
    /\ ExitLoading(FALSE)
    /\ UNCHANGED <<migKind, migStream, response, pos, currentCellIndex, buffer,
                   hasReceivedData, fullMigratedCode, clearedCell, hasContent,
                   segOwner>>
    /\ UNCHANGED <<migFault, migIncs>>
    /\ UNCHANGED <<provVars, sseVars, migs, bufVars, sbVars, lateVars>>

MigNext ==
    \/ MigDecline
    \/ MigAccept
    \/ MigTokenOk
    \/ CellMigration
    \/ NotebookMigration
    \/ \E n \in 1..(Len(response) - pos) : CellChunk(n)
    \/ CellStreamEnd
    \/ \E n \in 1..(Len(response) - pos) : NotebookChunk(n)
    \/ NotebookStreamEnd

\* ------------------------------------------------- components at rest

Tokens == 1..MaxSessions

\* No streaming fetch has been made.
ProvIdle ==
    /\ streamPromises = {}
    /\ aborted = [t \in Tokens |-> FALSE]
    /\ timerArmed = [t \in Tokens |-> FALSE]
    /\ created = 0
    /\ genPc = [t \in Tokens |-> "created"]
    /\ strmPc = [t \in Tokens |-> "none"]
    /\ chunks = [t \in Tokens |-> 0]
    /\ otherInFlight = 0
    /\ decs = [t \in Tokens |-> 0]
    /\ teardowns = [t \in Tokens |-> 0]
    /\ lastOp = [op |-> "none", token |-> 0, cancelled |-> {}]

\* No postModelPromptStreaming call.
SseIdle ==
    /\ sseFragments = <<>>
    /\ sseBuffer = <<>>
    /\ sseLines = <<>>
    /\ ssePc = "done"
    /\ sseAborted = FALSE
    /\ sseDelivered = <<>>
    /\ sseEnd = "none"
    /\ sseText = <<>>
    /\ sseInput = <<>>
    /\ ssePending = <<>>

Calls == {1, 2}

IdleCall ==
    [pc |-> "idle", response |-> <<>>, pos |-> 0, currentCellIndex |-> -1,
     buffer |-> <<>>, cellContentMap |-> <<>>]

\* No migrateNotebook call beside the one of migVars.
ConcIdle == migs = [c \in Calls |-> IdleCall]

\* The migration of migVars is not requested.
MigIdle ==
    /\ migKind = "notebook"
    /\ migStream = TRUE
    /\ response = <<>>
    /\ pos = 0
    /\ mpc = "idle"
    /\ currentCellIndex = -1
    /\ buffer = <<>>
    /\ cellContentMap = <<>>
    /\ hasReceivedData = FALSE
    /\ fullMigratedCode = <<>>
    /\ clearedCell = FALSE
    /\ hasContent = FALSE
    /\ lastWrites = <<>>
    /\ written = {}
    /\ outcome = "none"
    /\ segOwner = <<>>
    /\ shadow = DemuxStart(InitCells)

\* No buffer is followed.
BufIdle ==
    /\ bufWho = "decoder"
    /\ bufLen = 0
    /\ bufPc = "ended"
    /\ bufAppends = 0

\* refreshStatusBar(): the text for the current model, without a spinner.
refreshStatusBar(model) ==
    [text |-> IF model # "none" THEN model ELSE "No Model Selected",
     spinners |-> 0]

SbIdle ==
    /\ sbModel = "none"
    /\ sbHtml = refreshStatusBar("none")
    /\ sbCalls = <<>>

NoteIdle ==
    /\ migFault = "none"
    /\ progress = "none"
    /\ stacked = FALSE
    /\ migIncs = 0
    /\ migDecs = 0

\* No chunk of a streaming cell migration is followed.
CellIdle ==
    /\ chunkQueue = <<>>
    /\ chunkSeen = <<>>

\* The notebook of NumCells code cells, as the user left it.
NbIdle ==
    /\ cellIds = [i \in CellIndices |-> i]
    /\ cellTypes = [i \in CellIndices |-> "code"]
    /\ sentIds = [i \in CellIndices |-> i]
    /\ nbRequest = <<>>
    /\ nbEdits = 0

\* No completion has been fetched.
CompIdle ==
    /\ cMode = "batch"
    /\ cPc = "done"
    /\ cQueue = <<>>
    /\ cSeen = <<>>
    /\ cItems = <<>>
    /\ cThrown = "none"
    /\ cCause = "none"
    /\ cRaised = "none"
    /\ textParts = <<>>
    /\ cEmitted = <<>>
    /\ prompt_id = ""
    /\ cAccepted = <<>>
    /\ cLock = [acquired |-> 0, released |-> 0]
    /\ cNotes = 0
    /\ lastPrompt = <<>>

TimeoutIdle == tLength = 0 /\ tTimeout = 0

NoRequest == [sent |-> FALSE, via |-> "none", text |-> <<>>]
NoItem == [kind |-> "none", text |-> <<>>]

PromptIdle ==
    /\ pText = <<>>
    /\ pRequest = NoRequest
    /\ pChunk = [t |-> "null"]
    /\ pItem = NoItem

MaxAutoCalls == 3
AutoCalls == 1..MaxAutoCalls

AutoIdle ==
    /\ acPc = [c \in AutoCalls |-> "idle"]
    /\ acResult = [c \in AutoCalls |-> "none"]
    /\ activeRequestController = 0
    /\ acAborted = {}
    /\ acOther = 0

ListenerIdle ==
    /\ focusTimers = 0
    /\ currentNotebook = 0
    /\ disposed = FALSE

LoopIdle ==
    /\ lpD = DemuxStart(InitCells)
    /\ lpStart = DemuxStart(InitCells)
    /\ lpPc = "await"
    /\ lpIters = 0
    /\ lpChunks = 0

LastIdle == PromptIdle /\ AutoIdle /\ ListenerIdle /\ LoopIdle

LateIdle == CellIdle /\ NbIdle /\ CompIdle /\ TimeoutIdle /\ LastIdle

RestIdle == BufIdle /\ SbIdle /\ NoteIdle /\ LateIdle

Init ==
    /\ MigInit
    /\ activeRequestCount = 0
    /\ ProvIdle /\ SseIdle /\ ConcIdle /\ RestIdle

Next == MigNext

Spec == Init /\ [][Next]_vars

\* ------------------------------------------------- claims on the migration

IsPrefix(a, b) == Len(a) <= Len(b) /\ SubSeq(b, 1, Len(a)) = a

HasOutOfRangeSegment == \E i \in 1..Len(segOwner) : segOwner[i] >= NumCells

NotebookStreamDone == mpc = "done" /\ migKind = "notebook" /\ migStream

\* The text the migration was asked to migrate.
OriginalCode ==
    IF migKind = "cell" THEN InitCells[ActiveCell] ELSE CombinedCode(InitCells)

\* C1: however the combined migrated code was cut into chunks, a finished
\* streaming notebook migration leaves every cell with the content that
\* feeding the whole response as one chunk gives.
C1_ChunkingIndependent ==
    NotebookStreamDone => cells = StreamAll(InitCells, <<response>>).cells

\* The content of cell w.index before the k-th write of the step writes:
\* the previous write of the step to that cell, else what the migration had
\* written there before the step (<<"none">> when it had not written yet).
PreviousWrite(old, wasWritten, writes, k) ==
    LET earlier == {j \in 1..(k - 1) : writes[j].index = writes[k].index}
    IN  IF earlier # {}
        THEN <<writes[CHOOSE j \in earlier : \A i \in earlier : i <= j].content>>
        ELSE IF writes[k].index \in wasWritten
        THEN <<old[writes[k].index]>>
        ELSE <<>>

\* C2: in a streaming notebook migration every write to a cell extends the
\* content the migration wrote to that cell before: the migrated content of
\* a cell never gets shorter.
C2_WritesNeverShrink ==
    [][(migKind = "notebook" /\ migStream) =>
         \A k \in 1..Len(lastWrites') :
           LET prev == PreviousWrite(cells, written, lastWrites', k)
           IN  prev # <<>> => IsPrefix(prev[1], lastWrites'[k].content)]_vars

\* The cells a notebook migration leaves when the out-of-range segments are
\* taken out of the response (the nothing-to-migrate comparison left aside).
CellsWithoutOutOfRange ==
    IF migStream THEN shadow.cells
    ELSE ApplySegments([cells |-> InitCells, writes |-> <<>>],
                       SplitAtMarkers(WithoutOutOfRange(response))).cells

C10_NothingToMigrate ==
    (mpc = "done" /\ Len(response) > 0 /\ Trim(response) = Trim(OriginalCode)) =>
        /\ outcome = "nothing_to_migrate"
        /\ written = {}
        /\ cells = InitCells

\* =========================================================================
\* Inline streaming completion sessions (QiskitCompletionProvider.ts,
\* service/autocomplete.ts)
\* =========================================================================

\* The provider's registry and the counter, as one value.
Provider ==
    [streamPromises |-> streamPromises, aborted |-> aborted,
     timerArmed |-> timerArmed, count |-> activeRequestCount]

\* n calls of stopLoadingStatus.
RECURSIVE StopTimes(_, _)
StopTimes(count, n) ==
    IF n = 0 THEN count ELSE StopTimes(stopLoadingStatus(count), n - 1)

\* cancelStream(token)
cancelStream(p, token) ==
    IF token \in p.streamPromises
    THEN [streamPromises |-> p.streamPromises \ {token},
          aborted |-> [p.aborted EXCEPT ![token] = TRUE],
          timerArmed |-> [p.timerArmed EXCEPT ![token] = FALSE],
          count |-> stopLoadingStatus(p.count)]
    ELSE p

\* cancelAllStreams()
cancelAllStreams(p) ==
    [streamPromises |-> {},
     aborted |-> [t \in Tokens |-> p.aborted[t] \/ t \in p.streamPromises],
     timerArmed |-> [t \in Tokens |->
                       p.timerArmed[t] /\ t \notin p.streamPromises],
     count |-> StopTimes(p.count, Cardinality(p.streamPromises))]

\* The callback of the timer armed by fetch.
timeoutCallback(p, token) ==
    [streamPromises |-> p.streamPromises \ {token},
     aborted |-> [p.aborted EXCEPT ![token] = TRUE],
     timerArmed |-> [p.timerArmed EXCEPT ![token] = FALSE],
     count |-> p.count]

\* The streaming branch of fetch without its call of cancelAllStreams.
fetchWithoutCancel(p, token) ==
    [p EXCEPT !.streamPromises = @ \cup {token},
              !.aborted[token] = FALSE,
              !.timerArmed[token] = TRUE]

\* The streaming branch of fetch: existing streams are cancelled, then the
\* new session (controller, timer, generator) is registered under token.
fetch(p, token) ==
    LET q == IF Cardinality(p.streamPromises) > 0
             THEN cancelAllStreams(p) ELSE p
    IN  [q EXCEPT !.streamPromises = @ \cup {token},
                  !.aborted[token] = FALSE,
                  !.timerArmed[token] = TRUE]

\* The finally block of stream(token).
streamFinally(p, token) ==
    [streamPromises |-> p.streamPromises \ {token},
     aborted |-> p.aborted,
     timerArmed |-> [p.timerArmed EXCEPT ![token] = FALSE],
     count |-> stopLoadingStatus(p.count)]

\* The finally block of autoCompleteStreaming.
autoCompleteStreamingFinally(p) ==
    [p EXCEPT !.count = stopLoadingStatus(@)]

SetProvider(q) ==
    /\ streamPromises' = q.streamPromises
    /\ aborted' = q.aborted
    /\ timerArmed' = q.timerArmed
    /\ activeRequestCount' = q.count

\* The decrements of the counter made by cancelling the sessions of S one
\* after the other when the counter holds count: stopLoadingStatus stops at 0.
DecsAfterCancel(S, count) ==
    [t \in Tokens |->
        decs[t] + (IF t \in S /\ Cardinality({u \in S : u <= t}) <= count
                   THEN 1 ELSE 0)]

ProvInit ==
    /\ ProvIdle
    /\ activeRequestCount = 0
    /\ cells = InitCells
    /\ MigIdle /\ SseIdle /\ ConcIdle /\ RestIdle

\* fetch with a manual trigger and streaming enabled.
Fetch ==
    /\ created < MaxSessions
    /\ \E token \in {created + 1} :
          /\ SetProvider(fetch(Provider, token))
          /\ created' = token
          /\ lastOp' = [op |-> "fetch", token |-> token,
                        cancelled |-> streamPromises]
    /\ decs' = DecsAfterCancel(streamPromises, activeRequestCount)
    /\ teardowns' = [t \in Tokens |->
                       teardowns[t] + (IF t \in streamPromises THEN 1 ELSE 0)]
    /\ UNCHANGED <<genPc, strmPc, chunks, otherInFlight>>
    /\ UNCHANGED <<cells, migVars, sseVars, migs, restVars>>

\* The completer calls stream(token) and pulls: without a registered context
\* stream returns at once; otherwise the generator of the session starts and
\* awaits checkAPIToken.
StreamCall(token) ==
    /\ token <= created
    /\ strmPc[token] = "none"
    /\ IF token \in streamPromises
       THEN /\ strmPc' = [strmPc EXCEPT ![token] = "running"]
            /\ genPc' = [genPc EXCEPT ![token] = "token"]
       ELSE /\ strmPc' = [strmPc EXCEPT ![token] = "notfound"]
            /\ UNCHANGED genPc
    /\ lastOp' = [op |-> "stream", token |-> token, cancelled |-> {}]
    /\ UNCHANGED <<activeRequestCount, streamPromises, aborted, timerArmed,
                   created, chunks, otherInFlight, decs, teardowns>>
    /\ UNCHANGED <<cells, migVars, sseVars, migs, restVars>>

\* autoCompleteStreaming: the token is valid, a model is selected and its
\* disclaimer accepted; promptPromiseStreaming starts (setLoadingStatus) and
\* sends the request.
GenStart(token) ==
    /\ strmPc[token] = "running"
    /\ genPc[token] = "token"
    /\ genPc' = [genPc EXCEPT ![token] = "streaming"]
    /\ activeRequestCount' = setLoadingStatus(activeRequestCount)
    /\ lastOp' = [op |-> "start", token |-> token, cancelled |-> {}]
    /\ UNCHANGED <<streamPromises, aborted, timerArmed, created, strmPc,
                   chunks, otherInFlight, decs, teardowns>>
    /\ UNCHANGED <<cells, migVars, sseVars, migs, restVars>>

\* The generator of the session ends and stream(token) with it: the finally
\* of autoCompleteStreaming, then the finally of stream.
Finish(token) ==
    \E q \in {streamFinally(autoCompleteStreamingFinally(Provider), token)} :
        /\ SetProvider(q)
        /\ genPc' = [genPc EXCEPT ![token] = "done"]
        /\ strmPc' = [strmPc EXCEPT ![token] = "done"]
        /\ decs' = [decs EXCEPT ![token] = @ + (activeRequestCount - q.count)]
        /\ teardowns' = [teardowns EXCEPT ![token] = @ + 1]

\* autoCompleteStreaming ends before any request: checkAPIToken fails, no
\* model is selected or the disclaimer is declined (the empty result is
\* yielded, which stream does not forward).
GenFail(token) ==
    /\ strmPc[token] = "running"
    /\ genPc[token] = "token"
    /\ Finish(token)
    /\ lastOp' = [op |-> "fail", token |-> token, cancelled |-> {}]
    /\ UNCHANGED <<created, chunks, otherInFlight>>
    /\ UNCHANGED <<cells, migVars, sseVars, migs, restVars>>

\* One chunk reaches stream(token), which yields the text so far.
GenChunk(token) ==
    /\ strmPc[token] = "running"
    /\ genPc[token] = "streaming"
    /\ chunks[token] < MaxChunks
    /\ chunks' = [chunks EXCEPT ![token] = @ + 1]
    /\ lastOp' = [op |-> "chunk", token |-> token, cancelled |-> {}]
    /\ UNCHANGED <<activeRequestCount, streamPromises, aborted, timerArmed,
                   created, genPc, strmPc, otherInFlight, decs, teardowns>>
    /\ UNCHANGED <<cells, migVars, sseVars, migs, restVars>>

\* The response stream of the session ends: completely, with an error, or
\* with the AbortError of an aborted signal.
StreamEnd(token) ==
    /\ strmPc[token] = "running"
    /\ genPc[token] = "streaming"
    /\ Finish(token)
    /\ lastOp' = [op |-> "end", token |-> token, cancelled |-> {}]
    /\ UNCHANGED <<created, chunks, otherInFlight>>
    /\ UNCHANGED <<cells, migVars, sseVars, migs, restVars>>

\* cancelStream(token) on a registered session.
CancelStream(token) ==
    /\ token \in streamPromises
    /\ SetProvider(cancelStream(Provider, token))
    /\ decs' = DecsAfterCancel({token}, activeRequestCount)
    /\ teardowns' = [teardowns EXCEPT ![token] = @ + 1]
    /\ lastOp' = [op |-> "cancelStream", token |-> token,
                  cancelled |-> {token}]
    /\ UNCHANGED <<created, genPc, strmPc, chunks, otherInFlight>>
    /\ UNCHANGED <<cells, migVars, sseVars, migs, restVars>>

\* Escape, focus out, content change, active cell change, shell change:
\* cancelAllStreams() when a session is registered.
CancelAll ==
    /\ Cardinality(streamPromises) > 0
    /\ SetProvider(cancelAllStreams(Provider))
    /\ decs' = DecsAfterCancel(streamPromises, activeRequestCount)
    /\ teardowns' = [t \in Tokens |->
                       teardowns[t] + (IF t \in streamPromises THEN 1 ELSE 0)]
    /\ lastOp' = [op |-> "cancelAll", token |-> 0,
                  cancelled |-> streamPromises]
    /\ UNCHANGED <<created, genPc, strmPc, chunks, otherInFlight>>
    /\ UNCHANGED <<cells, migVars, sseVars, migs, restVars>>

\* The timer of a session fires.
Timeout(token) ==
    /\ timerArmed[token]
    /\ SetProvider(timeoutCallback(Provider, token))
    /\ teardowns' = [teardowns EXCEPT ![token] = @ + 1]
    /\ lastOp' = [op |-> "timeout", token |-> token, cancelled |-> {token}]
    /\ UNCHANGED <<created, genPc, strmPc, chunks, otherInFlight, decs>>
    /\ UNCHANGED <<cells, migVars, sseVars, migs, restVars>>

\* Another request starts (withLoadingStatus, promptPromise).
OtherStart ==
    /\ otherInFlight < MaxOther
    /\ otherInFlight' = otherInFlight + 1
    /\ activeRequestCount' = setLoadingStatus(activeRequestCount)
    /\ lastOp' = [op |-> "otherStart", token |-> 0, cancelled |-> {}]
    /\ UNCHANGED <<streamPromises, aborted, timerArmed, created, genPc,
                   strmPc, chunks, decs, teardowns>>
    /\ UNCHANGED <<cells, migVars, sseVars, migs, restVars>>

\* ... and ends.
OtherStop ==
    /\ otherInFlight > 0
    /\ otherInFlight' = otherInFlight - 1
    /\ activeRequestCount' = stopLoadingStatus(activeRequestCount)
    /\ lastOp' = [op |-> "otherStop", token |-> 0, cancelled |-> {}]
    /\ UNCHANGED <<streamPromises, aborted, timerArmed, created, genPc,
                   strmPc, chunks, decs, teardowns>>
    /\ UNCHANGED <<cells, migVars, sseVars, migs, restVars>>

ProvNext ==
    \/ Fetch
    \/ \E token \in Tokens : StreamCall(token)
    \/ \E token \in Tokens : GenStart(token)
    \/ \E token \in Tokens : GenFail(token)
    \/ \E token \in Tokens : GenChunk(token)
    \/ \E token \in Tokens : StreamEnd(token)
    \/ \E token \in Tokens : CancelStream(token)
    \/ CancelAll
    \/ \E token \in Tokens : Timeout(token)
    \/ OtherStart
    \/ OtherStop

SpecProv == ProvInit /\ [][ProvNext]_vars

\* ------------------------------------------------- claims on the sessions

\* The session of token is over: it is not registered and stream(token) has
\* returned.
SessionOver(token) ==
    /\ token <= created
    /\ token \notin streamPromises
    /\ strmPc[token] \in {"done", "notfound"}

\* C4: every streaming session decrements the active-request counter exactly
\* once, whatever its outcome (completion, error, cancel, timeout).
C4_DecrementsExactlyOnce ==
    \A token \in Tokens : SessionOver(token) => decs[token] = 1

\* C5: at every moment at most one streaming session is registered and not
\* aborted; a streaming fetch has aborted and removed every session that was
\* registered before it registers the new one.
C5_OneLiveSession ==
    /\ Cardinality({t \in streamPromises : ~aborted[t]}) <= 1
    /\ lastOp.op = "fetch" =>
          /\ streamPromises = {lastOp.token}
          /\ \A t \in lastOp.cancelled : aborted[t]

\* A fetch has been made while the stream of the previous session was being
\* consumed.
C5_Witness ==
    /\ lastOp.op = "fetch"
    /\ \E t \in lastOp.cancelled :
          strmPc[t] = "running" /\ genPc[t] = "streaming" /\ chunks[t] > 0

\* C6: the cleanup code of a session (registry entry removed, timer cleared
\* or fired) never runs twice.
C6_TornDownOnce ==
    \A token \in Tokens : teardowns[token] <= 1

\* C7: the firing of a session's timer changes the abort controller, the
\* registry and the counter as cancelStream on that session would.
C7_TimeoutAsCancel ==
    [][lastOp'.op = "timeout" =>
         LET q == cancelStream(Provider, lastOp'.token)
         IN  /\ aborted' = q.aborted
             /\ streamPromises' = q.streamPromises
             /\ activeRequestCount' = q.count]_vars

\* =========================================================================
\* The frame decoder (service/api.ts) over the reader of utils/handler.ts
\* =========================================================================

STREAM_DATA_PREFIX == <<"d", "a", "t", "a", ":", " ">>

MAX_BUFFER_SIZE == 1048576

\* String.prototype.split('\n')
RECURSIVE SplitLines(_)
SplitLines(s) ==
    IF \A i \in 1..Len(s) : s[i] # "\n" THEN <<s>>
    ELSE LET k == CHOOSE i \in 1..Len(s) :
                     s[i] = "\n" /\ \A j \in 1..(i - 1) : s[j] # "\n"
         IN  <<SubSeq(s, 1, k - 1)>> \o SplitLines(SubSeq(s, k + 1, Len(s)))

\* JSON.parse, for JSON texts without inner white space, escapes, true or
\* false: a text is a number, null, a string, or an object whose members are
\* such values. Values: [t |-> "num", n |-> 1], [t |-> "null"],
\* [t |-> "str", s |-> chars], [t |-> "obj", o |-> key -> value].
\* Each parser returns [ok, v, next]: next is the 1-based index after the
\* parsed text.
JsonFail == [ok |-> FALSE, v |-> [t |-> "null"], next |-> 0]

JSON_NULL == <<"n", "u", "l", "l">>

\* A JSON string that starts at s[i] (its opening quote).
ParseString(s, i) ==
    IF i > Len(s) \/ s[i] # "\"" THEN JsonFail
    ELSE LET closing == {j \in (i + 1)..Len(s) : s[j] = "\""}
         IN  IF closing = {} THEN JsonFail
             ELSE LET j == CHOOSE c \in closing : \A d \in closing : c <= d
                  IN  IF \E k \in (i + 1)..(j - 1) : s[k] = "\\"
                      THEN JsonFail
                      ELSE [ok |-> TRUE,
                            v |-> [t |-> "str", s |-> SubSeq(s, i + 1, j - 1)],
                            next |-> j + 1]

\* A JSON number (an unsigned integer) that starts at s[i].
ParseNumber(s, i) ==
    LET d == DigitRun(s, i - 1)
    IN  IF d = 0 \/ (d > 1 /\ s[i] = "0") THEN JsonFail
        ELSE [ok |-> TRUE,
              v |-> [t |-> "num", n |-> ParseInt(SubSeq(s, i, i + d - 1))],
              next |-> i + d]

RECURSIVE ParseValue(_, _), ParseMembers(_, _, _)

\* The members of an object from s[i] on, added to the members acc.
ParseMembers(s, i, acc) ==
    LET key == ParseString(s, i)
    IN  IF ~key.ok \/ key.next > Len(s) \/ s[key.next] # ":" THEN JsonFail
        ELSE LET val == ParseValue(s, key.next + 1)
                 members == MapSet(acc, key.v.s, val.v)
             IN  IF ~val.ok \/ val.next > Len(s) THEN JsonFail
                 ELSE IF s[val.next] = ","
                 THEN ParseMembers(s, val.next + 1, members)
                 ELSE IF s[val.next] = "}"
                 THEN [ok |-> TRUE, v |-> [t |-> "obj", o |-> members],
                       next |-> val.next + 1]
                 ELSE JsonFail

\* A JSON value that starts at s[i].
ParseValue(s, i) ==
    IF i > Len(s) THEN JsonFail
    ELSE IF s[i] = "\"" THEN ParseString(s, i)
    ELSE IF s[i] \in Digits THEN ParseNumber(s, i)
    ELSE IF s[i] = "n"
    THEN IF StartsWithAt(s, JSON_NULL, i - 1)
         THEN [ok |-> TRUE, v |-> [t |-> "null"], next |-> i + Len(JSON_NULL)]
         ELSE JsonFail
    ELSE IF s[i] = "{"
    THEN IF i < Len(s) /\ s[i + 1] = "}"
         THEN [ok |-> TRUE, v |-> [t |-> "obj", o |-> <<>>], next |-> i + 2]
         ELSE ParseMembers(s, i + 1, <<>>)
    ELSE JsonFail

\* JSON.parse(str): ok is FALSE for a SyntaxError.
JSONparse(str) ==
    LET t == Trim(str)
        r == ParseValue(t, 1)
    IN  IF r.ok /\ r.next = Len(t) + 1
        THEN [ok |-> TRUE, value |-> r.v]
        ELSE [ok |-> FALSE, value |-> [t |-> "null"]]

\* Truthiness of a JSON value.
Truthy(data) ==
    CASE data.t = "null" -> FALSE
      [] data.t = "num" -> data.n # 0
      [] data.t = "str" -> Len(data.s) > 0
      [] data.t = "obj" -> TRUE

\* data.<name> of a value that is not null: <<>> for undefined, <<value>>.
Property(data, name) ==
    IF data.t = "obj" /\ name \in DOMAIN data.o THEN <<data.o[name]>>
    ELSE <<>>

ERROR_KEY == <<"e", "r", "r", "o", "r">>
TYPE_KEY == <<"t", "y", "p", "e">>
CHUNK_PROCESSING_ERROR ==
    [t |-> "str",
     s |-> <<"c", "h", "u", "n", "k", "_", "p", "r", "o", "c", "e", "s", "s",
             "i", "n", "g", "_", "e", "r", "r", "o", "r">>]

\* parseSSEDataLine with every error field taken as fatal.
parseSSEDataLineAllFatal(line) ==
    IF ~StartsWithAt(line, STREAM_DATA_PREFIX, 0) THEN [kind |-> "null"]
    ELSE LET parsed == JSONparse(Substring(line, Len(STREAM_DATA_PREFIX)))
             data == parsed.value
         IN  IF Len(Substring(line, Len(STREAM_DATA_PREFIX))) = 0 \/ ~parsed.ok
             THEN [kind |-> "null"]
             ELSE IF data.t = "null"
             THEN [kind |-> "throw", error |-> "TypeError"]
             ELSE IF /\ Property(data, ERROR_KEY) # <<>>
                     /\ Truthy(Property(data, ERROR_KEY)[1])
             THEN [kind |-> "throw", error |-> "Error"]
             ELSE [kind |-> "data", data |-> data]

\* parseSSEDataLine(line): [kind |-> "null"], [kind |-> "data", data |-> v]
\* or [kind |-> "throw", error |-> e], e being "TypeError" (the error field
\* of null is read) or "Error" (new Error(data.error)).
parseSSEDataLine(line) ==
    IF ~StartsWithAt(line, STREAM_DATA_PREFIX, 0) THEN [kind |-> "null"]
    ELSE LET jsonStr == Substring(line, Len(STREAM_DATA_PREFIX))
         IN  IF Len(jsonStr) = 0 THEN [kind |-> "null"]
             ELSE LET parsed == JSONparse(jsonStr)
                      data == parsed.value
                  IN  IF ~parsed.ok THEN [kind |-> "null"]
                      ELSE IF data.t = "null"
                      THEN [kind |-> "throw", error |-> "TypeError"]
                      ELSE IF /\ Property(data, ERROR_KEY) # <<>>
                              /\ Truthy(Property(data, ERROR_KEY)[1])
                      THEN IF Property(data, TYPE_KEY)
                                # <<CHUNK_PROCESSING_ERROR>>
                           THEN [kind |-> "throw", error |-> "Error"]
                           ELSE [kind |-> "null"]
                      ELSE [kind |-> "data", data |-> data]

\* The loop over the complete lines, run up to its next yield, to a throw of
\* parseSSEDataLine, or to its end.
RECURSIVE RunLines(_)
RunLines(lines) ==
    IF Len(lines) = 0
    THEN [kind |-> "end", rest |-> <<>>]
    ELSE LET r == parseSSEDataLine(Trim(Head(lines)))
         IN  IF r.kind = "throw"
             THEN [kind |-> "throw", error |-> r.error, rest |-> <<>>]
             ELSE IF r.kind = "data" /\ Truthy(r.data)
             THEN [kind |-> "yield", frame |-> r.data, rest |-> Tail(lines)]
             ELSE RunLines(Tail(lines))

\* 'Process any remaining data in buffer'.
ResidualFrame(buf) ==
    IF Len(Trim(buf)) > 0
    THEN RunLines(<<Trim(buf)>>)
    ELSE [kind |-> "end", rest |-> <<>>]

DataLine(n) == STREAM_DATA_PREFIX \o NumToString(n)

\* Bytes of a response body: an ASCII byte is written as its character; C3
\* is the lead byte of a two-byte UTF-8 sequence and A9 a continuation byte
\* (C3 A9 encodes U+00E9). U+FFFD is the replacement character.
LEAD_BYTE == "C3"
CONTINUATION_BYTE == "A9"
E_ACUTE == "U+00E9"
REPLACEMENT == "U+FFFD"

\* The UTF-8 decoder over the pending bytes of the last call and the bytes
\* of this one, [text, pending]: a lead byte with its continuation byte is
\* one character, a lead byte before another byte or a continuation byte
\* alone is a replacement character, a lead byte at the end is held back.
Utf8Decode(pending, bytes) ==
    LET b == pending \o bytes
        n == Len(b)
        decoded(i) ==
            IF b[i] = LEAD_BYTE
            THEN IF i = n \/ b[i + 1] = CONTINUATION_BYTE THEN ""
                 ELSE REPLACEMENT
            ELSE IF b[i] = CONTINUATION_BYTE
            THEN IF i > 1 /\ b[i - 1] = LEAD_BYTE THEN E_ACUTE
                 ELSE REPLACEMENT
            ELSE b[i]
    IN  [text |-> SelectSeq([i \in 1..n |-> decoded(i)], LAMBDA c : c # ""),
         pending |-> IF n > 0 /\ b[n] = LEAD_BYTE THEN <<LEAD_BYTE>> ELSE <<>>]

\* The end of the input: pending bytes decode to a replacement character.
Utf8Flush(pending) == IF Len(pending) > 0 THEN <<REPLACEMENT>> ELSE <<>>

\* decoder.decode(value) of a decoder without the stream option: each call
\* decodes its bytes as a whole input.
decodeWhole(pending, value) ==
    LET r == Utf8Decode(<<>>, value)
    IN  [text |-> r.text \o Utf8Flush(r.pending), pending |-> <<>>]

\* decoder.decode(value, { stream: true }).
decodeStream(pending, value) == Utf8Decode(pending, value)

\* data: "<U+00E9>" as bytes.
ACCENT_LINE ==
    STREAM_DATA_PREFIX \o <<"\"", LEAD_BYTE, CONTINUATION_BYTE, "\"">>

\* Lines of a response body that are not frames of the service.
COMMENT_LINE == <<":", " ", "c">>
EVENT_LINE == <<"e", "v", "e", "n", "t", ":", " ", "m">>
MALFORMED_LINE == STREAM_DATA_PREFIX \o <<"{", "x">>
NULL_LINE == STREAM_DATA_PREFIX \o JSON_NULL
\* data: {"a":1}
OBJECT_LINE ==
    STREAM_DATA_PREFIX \o <<"{", "\"", "a", "\"", ":", "1", "}">>

\* data: {"error":"x"} and
\* data: {"error":"x","type":"chunk_processing_error"}
ERROR_LINE ==
    STREAM_DATA_PREFIX \o <<"{", "\"">> \o ERROR_KEY
        \o <<"\"", ":", "\"", "x", "\"", "}">>
CHUNK_ERROR_LINE ==
    STREAM_DATA_PREFIX \o <<"{", "\"">> \o ERROR_KEY
        \o <<"\"", ":", "\"", "x", "\"", ",", "\"">> \o TYPE_KEY
        \o <<"\"", ":", "\"">> \o CHUNK_PROCESSING_ERROR.s \o <<"\"", "}">>

\* {"a":n}, a line of NDJSON.
NDJSON_LINE(n) == <<"{", "\"", "a", "\"", ":">> \o NumToString(n) \o <<"}">>

\* Response bodies: three data lines, the last one without a line end; two
\* data lines and a blank line; data lines among a comment, an event line
\* and a malformed line; a null frame; an object and a zero; a two-byte
\* character, and a last line cut inside one; two lines of NDJSON;
\* a fatal error frame between two frames; a chunk_processing_error frame
\* before a frame.
SseTexts ==
    { DataLine(1) \o <<"\n">> \o DataLine(2) \o <<"\n">> \o DataLine(3),
      DataLine(1) \o <<"\n", "\n">> \o DataLine(2) \o <<"\n">>,
      DataLine(1) \o <<"\n">> \o COMMENT_LINE \o <<"\n">> \o EVENT_LINE
        \o <<"\n">> \o MALFORMED_LINE \o <<"\n">> \o DataLine(2) \o <<"\n">>,
      DataLine(1) \o <<"\n">> \o NULL_LINE \o <<"\n">> \o DataLine(2)
        \o <<"\n">>,
      OBJECT_LINE \o <<"\n">> \o DataLine(0) \o <<"\n">> \o DataLine(2),
      ACCENT_LINE \o <<"\n">> \o DataLine(2) \o <<LEAD_BYTE>>,
      NDJSON_LINE(1) \o <<"\n">> \o NDJSON_LINE(2) \o <<"\n">>,
      DataLine(1) \o <<"\n">> \o ERROR_LINE \o <<"\n">> \o DataLine(2)
        \o <<"\n">>,
      CHUNK_ERROR_LINE \o <<"\n">> \o DataLine(2) \o <<"\n">> }

\* The ways the reader can return text in at most n non-empty fragments.
RECURSIVE Fragmentations(_, _)
Fragmentations(text, n) ==
    IF Len(text) = 0 THEN {<<>>}
    ELSE {<<text>>} \cup
         (IF n <= 1 THEN {}
          ELSE UNION { { <<SubSeq(text, 1, k)>> \o r :
                           r \in Fragmentations(
                                   SubSeq(text, k + 1, Len(text)), n - 1) } :
                       k \in 1..(Len(text) - 1) })

SseInit ==
    /\ sseText \in SseTexts
    /\ sseFragments \in Fragmentations(sseText, MaxFragments)
    /\ sseInput = sseFragments
    /\ ssePending = <<>>
    /\ sseBuffer = <<>>
    /\ sseLines = <<>>
    /\ ssePc = "request"
    /\ sseAborted = FALSE
    /\ sseDelivered = <<>>
    /\ sseEnd = "none"
    /\ activeRequestCount = 0
    /\ cells = InitCells
    /\ MigIdle /\ ProvIdle /\ ConcIdle /\ RestIdle

\* The generator runs on from a complete fragment's lines to its next yield,
\* to a throw, or to the next read.
AfterLines(r) ==
    CASE r.kind = "yield" ->
            /\ sseDelivered' = Append(sseDelivered, r.frame)
            /\ sseLines' = r.rest
            /\ ssePc' = "yielded"
            /\ UNCHANGED sseEnd
      [] r.kind = "throw" ->
            /\ sseLines' = <<>>
            /\ ssePc' = "done"
            /\ sseEnd' = r.error
            /\ UNCHANGED sseDelivered
      [] r.kind = "end" ->
            /\ sseLines' = <<>>
            /\ ssePc' = "read"
            /\ UNCHANGED <<sseDelivered, sseEnd>>

\* The read loop is left (end of the body, or break): the residual buffer is
\* processed.
AfterLoop(buf) ==
    \E r \in {ResidualFrame(buf)} :
        CASE r.kind = "yield" ->
                /\ sseDelivered' = Append(sseDelivered, r.frame)
                /\ ssePc' = "yieldedLast"
                /\ UNCHANGED sseEnd
          [] r.kind = "throw" ->
                /\ ssePc' = "done"
                /\ sseEnd' = r.error
                /\ UNCHANGED sseDelivered
          [] r.kind = "end" ->
                /\ ssePc' = "done"
                /\ sseEnd' = "complete"
                /\ UNCHANGED sseDelivered

\* requestAPIStreaming: makeRequest answers, or rejects with the AbortError
\* of an aborted signal.
SseOpen ==
    /\ ssePc = "request"
    /\ IF sseAborted
       THEN ssePc' = "done" /\ sseEnd' = "AbortError"
       ELSE ssePc' = "read" /\ UNCHANGED sseEnd
    /\ UNCHANGED <<sseFragments, sseBuffer, sseLines, sseAborted,
                   sseDelivered>>
    /\ UNCHANGED <<sseText, sseInput, ssePending, activeRequestCount, cells,
                   migVars, provVars, migs, restVars>>

\* The request or a read fails for another reason: NetworkError.
SseNetworkError ==
    /\ ssePc \in {"request", "read"}
    /\ ~sseAborted
    /\ ssePc' = "done"
    /\ sseEnd' = "NetworkError"
    /\ UNCHANGED <<sseFragments, sseBuffer, sseLines, sseAborted,
                   sseDelivered>>
    /\ UNCHANGED <<sseText, sseInput, ssePending, activeRequestCount, cells,
                   migVars, provVars, migs, restVars>>

\* reader.read() returns the next fragment. (After an abort a transport that
\* holds the fragment ready returns it; the loop then breaks.)
SseFragment ==
    /\ ssePc = "read"
    /\ Len(sseFragments) > 0
    /\ sseFragments' = Tail(sseFragments)
    /\ \E chunk \in {decodeStream(ssePending, Head(sseFragments))} :
       /\ ssePending' = chunk.pending
       /\ IF sseAborted
          THEN AfterLoop(sseBuffer) /\ UNCHANGED <<sseBuffer, sseLines>>
          ELSE \E buf \in {sseBuffer \o chunk.text} :
                 IF Len(buf) > MAX_BUFFER_SIZE
                 THEN /\ ssePc' = "done"
                      /\ sseEnd' = "Error"
                      /\ sseBuffer' = buf
                      /\ UNCHANGED <<sseLines, sseDelivered>>
                 ELSE \E lines \in {SplitLines(buf)} :
                        /\ sseBuffer' = lines[Len(lines)]
                        /\ AfterLines(RunLines(SubSeq(lines, 1, Len(lines) - 1)))
    /\ UNCHANGED sseAborted
    /\ UNCHANGED <<sseText, sseInput, activeRequestCount, cells, migVars,
                   provVars, migs, restVars>>

\* reader.read() reports the end of the body (it can, after an abort, when
\* the body had been received completely). The decoder is flushed: a final
\* chunk, which holds no line end, is appended unless the signal is aborted,
\* and the read loop is left.
SseReadEnd ==
    /\ ssePc = "read"
    /\ Len(sseFragments) = 0
    /\ ssePending' = <<>>
    /\ \E buf \in {IF sseAborted THEN sseBuffer
                    ELSE sseBuffer \o Utf8Flush(ssePending)} :
         /\ sseBuffer' = buf
         /\ IF Len(buf) > MAX_BUFFER_SIZE
            THEN /\ ssePc' = "done"
                 /\ sseEnd' = "Error"
                 /\ UNCHANGED sseDelivered
            ELSE AfterLoop(buf)
    /\ UNCHANGED <<sseFragments, sseLines, sseAborted>>
    /\ UNCHANGED <<sseText, sseInput, activeRequestCount, cells, migVars,
                   provVars, migs, restVars>>

\* reader.read() rejects with the AbortError of the aborted signal.
SseReadAborted ==
    /\ ssePc = "read"
    /\ sseAborted
    /\ ssePc' = "done"
    /\ sseEnd' = "AbortError"
    /\ UNCHANGED <<sseFragments, sseBuffer, sseLines, sseAborted,
                   sseDelivered>>
    /\ UNCHANGED <<sseText, sseInput, ssePending, activeRequestCount, cells,
                   migVars, provVars, migs, restVars>>

\* The consumer (promptPromiseStreaming, autoCompleteStreaming, stream) asks
\* for the next frame: the generator resumes after its yield.
SseNext ==
    /\ ssePc \in {"yielded", "yieldedLast"}
    /\ IF ssePc = "yielded"
       THEN AfterLines(RunLines(sseLines))
       ELSE /\ ssePc' = "done"
            /\ sseEnd' = "complete"
            /\ UNCHANGED <<sseLines, sseDelivered>>
    /\ UNCHANGED <<sseFragments, sseBuffer, sseAborted>>
    /\ UNCHANGED <<sseText, sseInput, ssePending, activeRequestCount, cells,
                   migVars, provVars, migs, restVars>>

\* abortController.abort() (cancel or timeout) while the generator is
\* suspended.
SseAbort ==
    /\ ssePc # "done"
    /\ ~sseAborted
    /\ sseAborted' = TRUE
    /\ UNCHANGED <<sseFragments, sseBuffer, sseLines, ssePc, sseDelivered,
                   sseEnd>>
    /\ UNCHANGED <<sseText, sseInput, ssePending, activeRequestCount, cells,
                   migVars, provVars, migs, restVars>>

SseNext0 ==
    \/ SseOpen
    \/ SseNetworkError
    \/ SseFragment
    \/ SseReadEnd
    \/ SseReadAborted
    \/ SseNext
    \/ SseAbort

SpecSSE == SseInit /\ [][SseNext0]_vars

\* The values of the lines of a response body that carry the data prefix
\* and a JSON text, in the order of the lines.
RECURSIVE DataValues(_)
DataValues(lines) ==
    IF Len(lines) = 0 THEN <<>>
    ELSE LET line == Trim(Head(lines))
             parsed == JSONparse(Substring(line, Len(STREAM_DATA_PREFIX)))
         IN  (IF StartsWithAt(line, STREAM_DATA_PREFIX, 0) /\ parsed.ok
              THEN <<parsed.value>> ELSE <<>>) \o DataValues(Tail(lines))

\* A frame that carries an error field.
IsErrorFrame(data) ==
    /\ Property(data, ERROR_KEY) # <<>>
    /\ Truthy(Property(data, ERROR_KEY)[1])

\* The frames of the well-formed data lines of a body: the JSON values that
\* can be a response (objects, and other values that are not null, zero or
\* the empty string).
WellFormedFrames(text) ==
    SelectSeq(DataValues(SplitLines(text)), Truthy)

NoErrorFrames(text) ==
    \A k \in DOMAIN DataValues(SplitLines(text)) :
        LET v == DataValues(SplitLines(text))[k]
        IN  v.t = "null" \/ ~IsErrorFrame(v)

\* The characters of a whole response body.
BodyText == decodeWhole(<<>>, sseText).text

\* C12: a stream that is neither aborted nor cut by the network, and that
\* carries no error frame, completes, and has yielded exactly the frames of
\* its well-formed data lines in arrival order: every other line (malformed
\* JSON, blank, comment, event, a JSON text that is no response) yields
\* nothing and does not end the stream.
C12_ExactlyWellFormedFrames ==
    (/\ ssePc = "done"
     /\ ~sseAborted
     /\ sseEnd # "NetworkError"
     /\ NoErrorFrames(BodyText))
        => (/\ sseEnd = "complete"
            /\ sseDelivered = WellFormedFrames(BodyText))

\* The JSON values of the lines of a body that are not blank: <<>> for a
\* line that is no JSON text.
NdjsonValues(text) ==
    LET lines == SelectSeq(SplitLines(text), LAMBDA l : Len(Trim(l)) > 0)
    IN  [k \in DOMAIN lines |->
            IF JSONparse(lines[k]).ok THEN <<JSONparse(lines[k]).value>>
            ELSE <<>>]

\* A body framed as NDJSON: each line that is not blank is a JSON object.
IsNdjson(text) ==
    /\ Len(NdjsonValues(text)) > 0
    /\ \A k \in DOMAIN NdjsonValues(text) :
          /\ NdjsonValues(text)[k] # <<>>
          /\ NdjsonValues(text)[k][1].t = "obj"

\* C14: a body framed as NDJSON (one JSON object per line, no data prefix)
\* whose stream is neither aborted nor cut by the network is decoded into
\* one frame per line, in arrival order.
C14_NdjsonDecoded ==
    (ssePc = "done" /\ ~sseAborted /\ sseEnd # "NetworkError"
        /\ IsNdjson(BodyText))
        => (/\ sseEnd = "complete"
            /\ sseDelivered =
                 [k \in DOMAIN NdjsonValues(BodyText) |->
                     NdjsonValues(BodyText)[k][1]])

\* What the values of data lines yield when a chunk_processing_error frame
\* is dropped and any other error frame ends the stream.
RECURSIVE ErrorRule(_)
ErrorRule(values) ==
    IF Len(values) = 0 THEN [frames |-> <<>>, end |-> "complete"]
    ELSE LET v == Head(values)
             more == ErrorRule(Tail(values))
         IN  IF v.t = "null" \/ ~Truthy(v) THEN more
             ELSE IF ~IsErrorFrame(v)
             THEN [frames |-> <<v>> \o more.frames, end |-> more.end]
             ELSE IF Property(v, TYPE_KEY) = <<CHUNK_PROCESSING_ERROR>>
             THEN more
             ELSE [frames |-> <<>>, end |-> "Error"]

HasErrorFrame(text) == ~NoErrorFrames(text)

\* C15: in a stream that is neither aborted nor cut by the network, a frame
\* whose error field has the type chunk_processing_error is dropped and the
\* frames that follow are yielded; a frame with any other error field ends
\* the stream with an error, and no later frame is yielded.
C15_ErrorFrames ==
    (ssePc = "done" /\ ~sseAborted /\ sseEnd # "NetworkError"
        /\ HasErrorFrame(BodyText))
        => (/\ sseDelivered = ErrorRule(DataValues(SplitLines(BodyText))).frames
            /\ sseEnd = ErrorRule(DataValues(SplitLines(BodyText))).end)

\* The body that starts with a chunk_processing_error frame has completed
\* with the frame that follows it.
C15_Witness ==
    /\ ssePc = "done"
    /\ sseEnd = "complete"
    /\ HasErrorFrame(BodyText)
    /\ Len(sseInput) > 1
    /\ sseDelivered = <<[t |-> "num", n |-> 2]>>

\* The frames of complete lines, up to a throw of parseSSEDataLine.
RECURSIVE AllFrames(_)
AllFrames(lines) ==
    LET r == RunLines(lines)
    IN  IF r.kind = "yield"
        THEN LET more == AllFrames(r.rest)
             IN  [frames |-> <<r.frame>> \o more.frames, end |-> more.end]
        ELSE IF r.kind = "throw" THEN [frames |-> <<>>, end |-> r.error]
        ELSE [frames |-> <<>>, end |-> "complete"]

\* The run of the decoder over a body that the reader returns as one
\* fragment: its frames and its end.
Unsplit(bytes) ==
    LET chunk == decodeStream(<<>>, bytes)
        lines == SplitLines(chunk.text)
        inLoop == AllFrames(SubSeq(lines, 1, Len(lines) - 1))
        last == AllFrames(<<Trim(lines[Len(lines)] \o Utf8Flush(chunk.pending))>>)
    IN  IF inLoop.end # "complete" THEN inLoop
        ELSE [frames |-> inLoop.frames \o last.frames, end |-> last.end]

\* C13: however the bytes of a body are cut into fragments (inside a
\* two-byte character, a JSON text or the data prefix), a stream that is
\* neither aborted nor cut by the network ends as the unsplit stream ends
\* and has yielded the same frames, a last line without a line end included.
C13_FragmentationIndependent ==
    (ssePc = "done" /\ ~sseAborted /\ sseEnd # "NetworkError")
        => (/\ sseDelivered = Unsplit(sseText).frames
            /\ sseEnd = Unsplit(sseText).end)

\* A body cut inside its two-byte character and once more has yielded the
\* frame that holds the character.
C13_Witness ==
    /\ ssePc = "done"
    /\ sseEnd = "complete"
    /\ Len(sseInput) = MaxFragments
    /\ sseInput[1][Len(sseInput[1])] = LEAD_BYTE
    /\ sseInput[2][1] = CONTINUATION_BYTE
    /\ sseDelivered = <<[t |-> "str", s |-> <<E_ACUTE>>]>>

\* C8: once the cancellation signal is aborted, no further decoded frame is
\* delivered to the consumer.
C8_NoFrameAfterAbort ==
    [][sseAborted => sseDelivered' = sseDelivered]_vars

\* =========================================================================
\* Two migrateNotebook calls over the same notebook (service/migration.ts,
\* the toolbar button of index.ts)
\* =========================================================================

\* What the service streams back to a call.
ConcResponses ==
    { Marker(0) \o <<"a">> \o Marker(1) \o <<"b">>,
      Marker(0) \o <<"c">> }

CallDemux(c) ==
    [currentCellIndex |-> migs[c].currentCellIndex,
     buffer |-> migs[c].buffer,
     cellContentMap |-> migs[c].cellContentMap,
     cells |-> cells, writes |-> <<>>]

ConcInit ==
    /\ ConcIdle
    /\ activeRequestCount = 0
    /\ cells = InitCells
    /\ MigIdle /\ ProvIdle /\ SseIdle /\ RestIdle

\* The toolbar button is clicked: migrateNotebook shows its confirmation
\* dialog (a modal dialog: no click while one is open).
ConcClick(c) ==
    /\ migs[c].pc = "idle"
    /\ \A o \in Calls : migs[o].pc # "confirm"
    /\ migs' = [migs EXCEPT ![c].pc = "confirm"]
    /\ UNCHANGED <<activeRequestCount, cells, migVars, provVars, sseVars, restVars>>

\* 'No'
ConcDecline(c) ==
    /\ migs[c].pc = "confirm"
    /\ migs' = [migs EXCEPT ![c].pc = "done"]
    /\ UNCHANGED <<activeRequestCount, cells, migVars, provVars, sseVars, restVars>>

\* 'Yes': withLoadingStatus, the request is built and sent
\* (notebookMigrationStreaming).
ConcAccept(c) ==
    /\ migs[c].pc = "confirm"
    /\ \E r \in ConcResponses :
          migs' = [migs EXCEPT ![c].pc = "running", ![c].response = r]
    /\ activeRequestCount' = setLoadingStatus(activeRequestCount)
    /\ UNCHANGED <<cells, migVars, provVars, sseVars, restVars>>

\* One chunk of n characters of the call's stream arrives.
ConcChunk(c, n) ==
    /\ migs[c].pc = "running"
    /\ migs[c].pos + n <= Len(migs[c].response)
    /\ \/ (migs[c].pos + n) % ChunkStep = 0
       \/ migs[c].pos + n = Len(migs[c].response)
    /\ \E d \in {ProcessChunk(CallDemux(c),
                    SubSeq(migs[c].response, migs[c].pos + 1,
                           migs[c].pos + n))} :
          /\ cells' = d.cells
          /\ migs' = [migs EXCEPT ![c].pos = @ + n,
                                  ![c].currentCellIndex = d.currentCellIndex,
                                  ![c].buffer = d.buffer,
                                  ![c].cellContentMap = d.cellContentMap]
    /\ UNCHANGED <<activeRequestCount, migLocals, provVars, sseVars, restVars>>

\* The call's stream ends: the last cell is finalized; then
\* withLoadingStatus's finally.
ConcEnd(c) ==
    /\ migs[c].pc = "running"
    /\ migs[c].pos = Len(migs[c].response)
    /\ \E d \in {FinalizeLastCell(CallDemux(c))} :
          /\ cells' = d.cells
          /\ migs' = [migs EXCEPT ![c].pc = "done",
                                  ![c].cellContentMap = d.cellContentMap]
    /\ activeRequestCount' = stopLoadingStatus(activeRequestCount)
    /\ UNCHANGED <<migLocals, provVars, sseVars, restVars>>

ConcNext ==
    \/ \E c \in Calls : ConcClick(c)
    \/ \E c \in Calls : ConcDecline(c)
    \/ \E c \in Calls : ConcAccept(c)
    \/ \E c \in Calls : \E n \in 1..ChunkStep : ConcChunk(c, n)
    \/ \E c \in Calls : ConcEnd(c)

SpecConc == ConcInit /\ [][ConcNext]_vars

\* C9: two streaming migrations over the same notebook are never in
\* progress at once.
C9_OneMigrationAtATime ==
    Cardinality({c \in Calls : migs[c].pc = "running"}) <= 1

\* =========================================================================
\* The accumulation buffers and their bound (service/api.ts,
\* service/migration.ts): only the length of the buffer is followed
\* =========================================================================

\* A chunk, by its length and by what the processing of the buffer leaves
\* once the chunk is appended: rest = -1 when the buffer holds no line end
\* (decoder) or no complete marker (demultiplexer), so that all of it stays;
\* otherwise only the last rest characters of the chunk stay.
BufChunks ==
    [len : {1, 1000, 524288, 1048576, 1048577}, rest : {-1, 0, 1}]

\* Everything the accumulation buffers leave unchanged.
notBufVars ==
    <<activeRequestCount, migVars, provVars, sseVars, migs, sbVars, noteVars,
      lateVars>>

NotBufIdle ==
    /\ activeRequestCount = 0
    /\ cells = InitCells
    /\ MigIdle /\ ProvIdle /\ SseIdle /\ ConcIdle /\ SbIdle /\ NoteIdle
    /\ LateIdle

BufInit ==
    /\ bufWho \in {"decoder", "demultiplexer"}
    /\ bufLen = 0
    /\ bufPc = "streaming"
    /\ bufAppends = 0
    /\ NotBufIdle

\* 'buffer += chunk', then 'if (buffer.length > MAX_BUFFER_SIZE) throw',
\* then the processing of the buffer: the length of the buffer and whether
\* the stream failed.
appendChunk(len, chunk) ==
    LET appended == len + chunk.len
    IN  IF appended > MAX_BUFFER_SIZE
        THEN [len |-> appended, failed |-> TRUE]
        ELSE [len |-> IF chunk.rest = -1 THEN appended ELSE chunk.rest,
              failed |-> FALSE]

\* postModelPromptStreaming: one fragment is read.
DecoderAppend(chunk) ==
    /\ bufWho = "decoder"
    /\ bufPc = "streaming"
    /\ bufAppends < MaxAppends
    /\ \E r \in {appendChunk(bufLen, chunk)} :
          /\ bufLen' = r.len
          /\ bufPc' = IF r.failed THEN "failed" ELSE "streaming"
    /\ bufAppends' = bufAppends + 1
    /\ UNCHANGED bufWho
    /\ UNCHANGED notBufVars

\* notebookMigrationStreaming: one chunk of migrated code arrives.
DemuxAppend(chunk) ==
    /\ bufWho = "demultiplexer"
    /\ bufPc = "streaming"
    /\ bufAppends < MaxAppends
    /\ \E r \in {appendChunk(bufLen, chunk)} :
          /\ bufLen' = r.len
          /\ bufPc' = IF r.failed THEN "failed" ELSE "streaming"
    /\ bufAppends' = bufAppends + 1
    /\ UNCHANGED bufWho
    /\ UNCHANGED notBufVars

\* The stream ends.
BufEnd ==
    /\ bufPc = "streaming"
    /\ bufPc' = "ended"
    /\ UNCHANGED <<bufWho, bufLen, bufAppends>>
    /\ UNCHANGED notBufVars

BufNext ==
    \/ \E chunk \in BufChunks : chunk.rest <= chunk.len /\ DecoderAppend(chunk)
    \/ \E chunk \in BufChunks : chunk.rest <= chunk.len /\ DemuxAppend(chunk)
    \/ BufEnd

SpecBuf == BufInit /\ [][BufNext]_vars

\* C11: the accumulation buffer of the frame decoder and of the migration
\* demultiplexer never holds more than MAX_BUFFER_SIZE characters.
C11_BufferWithinBound == bufLen <= MAX_BUFFER_SIZE

\* ------------------------------------------------------- the status bar

\* Calls of one run.
MaxCalls == 6

notSbVars ==
    <<migVars, provVars, sseVars, migs, bufVars, noteVars, lateVars>>

NotSbIdle ==
    /\ cells = InitCells
    /\ MigIdle /\ ProvIdle /\ SseIdle /\ ConcIdle /\ BufIdle /\ NoteIdle
    /\ LateIdle

\* The widget after its constructor: refreshStatusBar() has run.
SbInit ==
    /\ activeRequestCount = 0
    /\ sbModel \in {"none", "granite"}
    /\ sbHtml = refreshStatusBar(sbModel)
    /\ sbCalls = <<>>
    /\ NotSbIdle

\* setLoadingStatus with a spinner for every request.
spinnerAlways(count, html) == [html EXCEPT !.spinners = @ + 1]

\* setLoadingStatus, after the increment to count: 'Only add spinner if
\* this is the first active request'.
spinnerIfFirst(count, html) ==
    IF count = 1 THEN [html EXCEPT !.spinners = @ + 1] ELSE html

SbSetLoadingStatus ==
    /\ Len(sbCalls) < MaxCalls
    /\ activeRequestCount' = setLoadingStatus(activeRequestCount)
    /\ sbHtml' = spinnerIfFirst(activeRequestCount', sbHtml)
    /\ sbCalls' = Append(sbCalls, "set")
    /\ UNCHANGED <<sbModel, notSbVars>>

\* stopLoadingStatus: 'Only remove spinner when all requests are done'.
SbStopLoadingStatus ==
    /\ Len(sbCalls) < MaxCalls
    /\ activeRequestCount' = stopLoadingStatus(activeRequestCount)
    /\ sbHtml' = IF activeRequestCount' = 0 THEN refreshStatusBar(sbModel)
                 ELSE sbHtml
    /\ sbCalls' = Append(sbCalls, "stop")
    /\ UNCHANGED <<sbModel, notSbVars>>

SbNext == SbSetLoadingStatus \/ SbStopLoadingStatus

SpecStatus == SbInit /\ [][SbNext]_vars

\* C16: over every sequence of setLoadingStatus and stopLoadingStatus calls
\* the counter is never negative, the status bar shows one spinner exactly
\* while the counter is positive (one for N overlapping requests), and a
\* spinner is removed only by a stop call that brings the counter to zero.
C16_OneSpinner ==
    /\ [](/\ activeRequestCount >= 0
          /\ sbHtml.spinners = IF activeRequestCount > 0 THEN 1 ELSE 0)
    /\ [][sbHtml'.spinners < sbHtml.spinners
            => (/\ sbCalls' = Append(sbCalls, "stop")
                /\ activeRequestCount = 1
                /\ activeRequestCount' = 0)]_vars

\* Three requests overlap under one spinner, after a stop call that had no
\* request to stop.
C16_Witness ==
    /\ sbCalls = <<"stop", "set", "set", "set">>
    /\ activeRequestCount = 3
    /\ sbHtml.spinners = 1

\* ------------------------------------------------ migrations that fail

\* What can go wrong in a migration of each kind.
Faults(kind, stream) ==
    {"none", "invalid_cell", "token", "stream"}
        \cup (IF kind = "cell" THEN {"null_cell"} ELSE {})
        \cup (IF kind = "notebook" /\ stream THEN {"overflow"} ELSE {})

\* The answers of the runs that may fail: notebook answers of at most one
\* segment, or the request itself.
FaultResponses(kind) ==
    IF kind = "cell" THEN CellResponses
    ELSE SegResponses(1) \cup {CombinedCode(InitCells)}

FaultInit ==
    /\ MigInit
    /\ response \in FaultResponses(migKind)
    /\ activeRequestCount = 0
    /\ migFault \in Faults(migKind, migStream)
    /\ progress = "none"
    /\ stacked = FALSE
    /\ migIncs = 0
    /\ migDecs = 0
    /\ ProvIdle /\ SseIdle /\ ConcIdle /\ BufIdle /\ SbIdle /\ LateIdle

\* The cells after a catch block that restores what the cells held.
restoreCells(cs, original) == original

\* The cells after the catch block of a streaming migration: no statement
\* of it writes a cell.
cellsAfterCatch(cs, original) == cs

\* migrateNotebookCell(null): 'if (!nb_cell) return'.
MigNullCell ==
    /\ mpc = "confirm"
    /\ migFault = "null_cell"
    /\ mpc' = "done"
    /\ outcome' = "null_cell"
    /\ UNCHANGED <<activeRequestCount, cells, migKind, migStream, response,
                   pos, currentCellIndex, buffer, cellContentMap,
                   hasReceivedData, fullMigratedCode, clearedCell, hasContent,
                   lastWrites, written, segOwner, shadow>>
    /\ UNCHANGED noteVars
    /\ UNCHANGED <<provVars, sseVars, migs, bufVars, sbVars, lateVars>>

\* 'Yes', and the cell is no code cell or holds no code (the notebook holds
\* no code cell): setLoadingStatus, a warning, and the finally block.
MigInvalidCell ==
    /\ mpc = "confirm"
    /\ migFault = "invalid_cell"
    /\ mpc' = "done"
    /\ outcome' = "invalid_cell"
    /\ migIncs' = migIncs + 1
    /\ \E st \in {withLoadingStatusFinally(
                     [count |-> setLoadingStatus(activeRequestCount),
                      stops |-> migDecs], FALSE)} :
          /\ activeRequestCount' = st.count
          /\ migDecs' = st.stops
    /\ UNCHANGED <<cells, migKind, migStream, response, pos, currentCellIndex,
                   buffer, cellContentMap, hasReceivedData, fullMigratedCode,
                   clearedCell, hasContent, lastWrites, written, segOwner,
                   shadow>>
    /\ UNCHANGED <<migFault, progress, stacked>>
    /\ UNCHANGED <<provVars, sseVars, migs, bufVars, sbVars, lateVars>>

\* checkAPIToken rejects: migrateNotebookCell's operation throws,
\* migrateNotebook's operation catches; then the finally block.
MigTokenFail ==
    /\ mpc = "token"
    /\ migFault = "token"
    /\ mpc' = "done"
    /\ outcome' = "token_failure"
    /\ ExitLoading(migKind = "cell")
    /\ UNCHANGED <<cells, migKind, migStream, response, pos, currentCellIndex,
                   buffer, cellContentMap, hasReceivedData, fullMigratedCode,
                   clearedCell, hasContent, lastWrites, written, segOwner,
                   shadow>>
    /\ UNCHANGED <<migFault, progress, stacked, migIncs>>
    /\ UNCHANGED <<provVars, sseVars, migs, bufVars, sbVars, lateVars>>

\* The request rejects, or the stream throws in place of its next chunk
\* ('Migration cancelled' included): the catch block of the migration
\* function dismisses the progress notification, shows the error and
\* rethrows; then the finally block.
MigStreamError ==
    /\ mpc = "running"
    /\ migFault = "stream"
    /\ mpc' = "done"
    /\ outcome' = "error"
    /\ cells' = cellsAfterCatch(cells, InitCells)
    /\ lastWrites' = <<>>
    /\ progress' = dismiss(progress)
    /\ stacked' = ErrorOver(progress')
    /\ ExitLoading(migKind = "cell")
    /\ UNCHANGED <<migKind, migStream, response, pos, currentCellIndex, buffer,
                   cellContentMap, hasReceivedData, fullMigratedCode,
                   clearedCell, hasContent, written, segOwner, shadow>>
    /\ UNCHANGED <<migFault, migIncs>>
    /\ UNCHANGED <<provVars, sseVars, migs, bufVars, sbVars, lateVars>>

\* notebookMigrationStreaming: a chunk arrives that takes the buffer over
\* MAX_BUFFER_SIZE. The branch shows 'Migration Error' and throws; the catch
\* block dismisses the progress notification and shows the second error.
NotebookOverflow ==
    /\ mpc = "running" /\ migKind = "notebook" /\ migStream
    /\ migFault = "overflow"
    /\ hasReceivedData' = TRUE
    /\ \E shown \in {ProgressOnChunk(progress, Len(fullMigratedCode),
                                      NOTIFICATION_THRESHOLD_NOTEBOOK)} :
          /\ stacked' = ErrorOver(shown)
          /\ progress' = dismiss(shown)
    /\ mpc' = "done"
    /\ outcome' = "error"
    /\ cells' = cellsAfterCatch(cells, InitCells)
    /\ lastWrites' = <<>>
    /\ ExitLoading(FALSE)
    /\ UNCHANGED <<migKind, migStream, response, pos, currentCellIndex, buffer,
                   cellContentMap, fullMigratedCode, clearedCell, hasContent,
                   written, segOwner, shadow>>
    /\ UNCHANGED <<migFault, migIncs>>
    /\ UNCHANGED <<provVars, sseVars, migs, bufVars, sbVars, lateVars>>

FaultNext ==
    \/ MigNext
    \/ MigNullCell
    \/ MigInvalidCell
    \/ MigTokenFail
    \/ MigStreamError
    \/ NotebookOverflow

SpecFault == FaultInit /\ [][FaultNext]_vars

\* C17: a confirmed migration calls setLoadingStatus once and
\* stopLoadingStatus once, whatever its outcome (success, nothing to
\* migrate, invalid cell, token failure, stream error, buffer overflow): the
\* counter is 1 while it runs and 0 when it has returned; a declined
\* confirmation or a null cell calls neither.
C17_CountedOncePerMigration ==
    /\ (mpc \in {"confirm", "declined"} \/ outcome = "null_cell")
          => (migIncs = 0 /\ migDecs = 0 /\ activeRequestCount = 0)
    /\ mpc \in {"token", "running"}
          => (migIncs = 1 /\ migDecs = 0 /\ activeRequestCount = 1)
    /\ (mpc = "done" /\ outcome # "null_cell")
          => (migIncs = 1 /\ migDecs = 1 /\ activeRequestCount = 0)

\* A streaming cell migration has failed after a first chunk, with its one
\* increment and its one decrement made.
C17_Witness ==
    /\ mpc = "done"
    /\ migKind = "cell"
    /\ outcome = "error"
    /\ pos > 0
    /\ migIncs = 1
    /\ migDecs = 1
    /\ activeRequestCount = 0

\* C18: the step in which a streaming migration fails (the stream throws,
\* a cancellation included, or the buffer overflows) writes no cell: every
\* cell keeps the partial content last pushed to it, the original content
\* is not restored.
C18_PartialContentKept ==
    [][(mpc = "running" /\ migStream /\ mpc' = "done" /\ outcome' = "error")
          => (cells' = cells /\ lastWrites' = <<>>)]_vars

\* A streaming notebook migration has failed in the middle of its answer
\* and a cell holds content of the chunks that had arrived.
C18_Witness ==
    /\ mpc = "done"
    /\ outcome = "error"
    /\ migStream
    /\ migKind = "notebook"
    /\ migFault = "stream"
    /\ 0 < pos /\ pos < Len(response)
    /\ written # {}
    /\ cells # InitCells

\* C19: no error notification of a streaming migration is shown while its
\* progress notification is displayed, and no progress notification is
\* displayed once the migration has returned.
C19_ProgressDismissedFirst ==
    /\ ~stacked
    /\ mpc = "done" => progress = "none"

\* ------------------------------- the non-streaming notebook migration

\* The texts that may follow a marker in an answer: the bodies, and what
\* follows the markers of the request.
SegmentTexts ==
    Bodies \cup {<<"x">>, <<"x", "\n">>, <<"x", "\n", "\n">>}

\* The lists of at most n segments [index, text] with in-range indices.
RECURSIVE SegLists(_)
SegLists(n) ==
    IF n = 0 THEN {<<>>}
    ELSE LET prev == SegLists(n - 1)
         IN  prev \cup {Append(l, [index |-> i, text |-> b]) :
                          l \in prev, i \in CellIndices, b \in SegmentTexts}

\* The answer made of the segments, each behind its marker line.
RECURSIVE Render(_)
Render(segs) ==
    IF Len(segs) = 0 THEN <<>>
    ELSE Marker(Head(segs).index) \o Head(segs).text \o Render(Tail(segs))

\* The cells when each segment's text is set as its cell, in order.
RECURSIVE SetEach(_, _)
SetEach(cs, segs) ==
    IF Len(segs) = 0 THEN cs
    ELSE SetEach([cs EXCEPT ![Head(segs).index] = Head(segs).text], Tail(segs))

NotebookBatchDone == mpc = "done" /\ migKind = "notebook" /\ ~migStream

SameAsRequest == Trim(response) = Trim(CombinedCode(InitCells))

\* C20 as claimed: after a non-streaming notebook migration whose answer is
\* made of marker-prefixed segments with in-range indices, every addressed
\* cell holds its segment's text without the marker line, and every other
\* cell is unchanged.
C20_AsClaimed ==
    NotebookBatchDone =>
        \A segs \in SegLists(NumCells + 1) \ {<<>>} :
            Render(segs) = response => cells = SetEach(InitCells, segs)

\* C20 amended: as claimed when the answer differs from the request by more
\* than surrounding white space; when it does not, no cell is written.
C20_SegmentsApplied ==
    NotebookBatchDone =>
        /\ \A segs \in SegLists(NumCells + 1) \ {<<>>} :
              (Render(segs) = response /\ ~SameAsRequest)
                  => cells = SetEach(InitCells, segs)
        /\ SameAsRequest => (cells = InitCells /\ lastWrites = <<>>)

\* The answer '### Notebook_Cell_0\na\n### Notebook_Cell_1\n b' has set
\* cell 0 to 'a\n' and cell 1 to ' b'.
C20_Witness ==
    /\ NotebookBatchDone
    /\ outcome = "success"
    /\ response = Marker(0) \o <<"a", "\n">> \o Marker(1) \o <<" ", "b">>
    /\ cells[0] = <<"a", "\n">>
    /\ cells[1] = <<" ", "b">>

\* ------------------------------------ the streaming single-cell migration

\* The most chunks one stream of a cell migration carries.
MaxCellChunks == 3

\* A chunk of postMigrationStreaming: null, or an object whose fields error
\* and migrated_code are absent (<<>>) or present (<<value>>).
NullChunk == [t |-> "null"]
ChunkObject(error, code) == [t |-> "obj", error |-> error, migrated_code |-> code]
CodeChunk(text) == ChunkObject(<<>>, <<[t |-> "str", s |-> text]>>)
NullCodeChunk == ChunkObject(<<>>, <<[t |-> "null"]>>)
MissingCodeChunk == ChunkObject(<<>>, <<>>)
ErrorChunk == ChunkObject(<<"e">>, <<>>)
ErrorCodeChunk(text) == ChunkObject(<<"e">>, <<[t |-> "str", s |-> text]>>)

INVALID_RESPONSE == "Received invalid migration response"

\* getMigratedCode that takes a missing migrated_code for an empty one.
getMigratedCodeLenient(json) ==
    IF json.t = "null" THEN [ok |-> FALSE, error |-> INVALID_RESPONSE]
    ELSE IF json.error # <<>> /\ Len(json.error[1]) > 0
    THEN [ok |-> FALSE, error |-> json.error[1]]
    ELSE [ok |-> TRUE,
          value |-> IF json.migrated_code = <<>> THEN <<>>
                    ELSE IF json.migrated_code[1].t = "null" THEN <<>>
                    ELSE json.migrated_code[1].s]

\* getMigratedCode(json): the migrated code, or the error thrown.
getMigratedCode(json) ==
    IF json.t = "null" THEN [ok |-> FALSE, error |-> INVALID_RESPONSE]
    ELSE IF json.error # <<>> /\ Len(json.error[1]) > 0
    THEN [ok |-> FALSE, error |-> json.error[1]]
    ELSE IF json.migrated_code = <<>>
    THEN [ok |-> FALSE, error |-> INVALID_RESPONSE]
    ELSE [ok |-> TRUE,
          value |-> IF json.migrated_code[1].t = "null" THEN <<>>
                    ELSE json.migrated_code[1].s]

\* The chunks a stream of a cell migration may carry.
CellChunks ==
    {CodeChunk(<<>>), CodeChunk(<<"y">>), CodeChunk(<<"w", " ">>),
     NullCodeChunk, MissingCodeChunk, ErrorChunk, ErrorCodeChunk(<<"y">>),
     NullChunk}

RECURSIVE SeqsUpTo(_, _)
\* The sequences of at most n elements of S.
SeqsUpTo(S, n) ==
    IF n = 0 THEN {<<>>}
    ELSE LET prev == SeqsUpTo(S, n - 1)
         IN  prev \cup {Append(q, x) : q \in prev, x \in S}

\* The cell's source after a chunk's text, appended without the clearing
\* of the first non-empty chunk.
sourceNeverCleared(source, cleared, text) ==
    IF Len(text) > 0 THEN source \o text ELSE source

\* cellMigrationStreaming, the two statements on the cell's source:
\* 'if (!clearedCell && chunk.migratedCode) source = ""' and
\* 'if (chunk.migratedCode) source += chunk.migratedCode'.
sourceAfterChunk(source, cleared, text) ==
    IF Len(text) > 0
    THEN (IF ~cleared THEN <<>> ELSE source) \o text
    ELSE source

notCellVars ==
    <<provVars, sseVars, migs, bufVars, sbVars, nbVars, compVars, timeoutVars,
      lastVars>>

\* migrateNotebookCell(cell, true) is in its 'for await' loop: confirmed,
\* counted by the status bar, the token checked, 'planning' shown.
CellStreamInit ==
    /\ cells = InitCells
    /\ migKind = "cell"
    /\ migStream = TRUE
    /\ response = <<>>
    /\ pos = 0
    /\ mpc = "running"
    /\ currentCellIndex = -1
    /\ buffer = <<>>
    /\ cellContentMap = <<>>
    /\ hasReceivedData = FALSE
    /\ fullMigratedCode = <<>>
    /\ clearedCell = FALSE
    /\ hasContent = FALSE
    /\ lastWrites = <<>>
    /\ written = {}
    /\ outcome = "none"
    /\ segOwner = <<>>
    /\ shadow = DemuxStart(InitCells)
    /\ activeRequestCount = setLoadingStatus(0)
    /\ migFault = "none"
    /\ progress = showPlanning
    /\ stacked = FALSE
    /\ migIncs = 1
    /\ migDecs = 0
    /\ chunkQueue \in SeqsUpTo(CellChunks, MaxCellChunks)
    /\ chunkSeen = <<>>
    /\ ProvIdle /\ SseIdle /\ ConcIdle /\ BufIdle /\ SbIdle /\ NbIdle
    /\ CompIdle /\ TimeoutIdle /\ LastIdle

\* One pass of the 'for await' loop over a chunk whose migrated code is
\* there: the notifications, the cell's source, the accumulators.
CellStreamChunk ==
    /\ mpc = "running" /\ migKind = "cell" /\ migStream
    /\ chunkQueue # <<>>
    /\ getMigratedCode(Head(chunkQueue)).ok
    /\ \E text \in {getMigratedCode(Head(chunkQueue)).value} :
          /\ progress' = ProgressOnChunk(progress, Len(fullMigratedCode),
                                        NOTIFICATION_THRESHOLD_CELL)
          /\ cells' = [cells EXCEPT ![ActiveCell] =
                          sourceAfterChunk(cells[ActiveCell], clearedCell, text)]
          /\ clearedCell' = (clearedCell \/ Len(text) > 0)
          /\ hasContent' = (hasContent \/ Len(text) > 0)
          /\ fullMigratedCode' = fullMigratedCode \o text
          /\ lastWrites' =
                IF Len(text) = 0 THEN <<>>
                ELSE (IF ~clearedCell
                      THEN <<[index |-> ActiveCell, content |-> <<>>]>>
                      ELSE <<>>)
                     \o <<[index |-> ActiveCell,
                           content |-> cells'[ActiveCell]]>>
          /\ written' = written \cup WrittenBy(lastWrites')
    /\ chunkQueue' = Tail(chunkQueue)
    /\ chunkSeen' = Append(chunkSeen, Head(chunkQueue))
    /\ UNCHANGED <<activeRequestCount, migKind, migStream, response, pos, mpc,
                   currentCellIndex, buffer, cellContentMap, hasReceivedData,
                   outcome, segOwner, shadow>>
    /\ UNCHANGED <<migFault, stacked, migIncs, migDecs>>
    /\ UNCHANGED notCellVars

\* The generator throws in place of a chunk (getMigratedCode): the catch
\* block of the streaming migration function, of a cell or of a notebook,
\* dismisses the notification, shows the error and rethrows; then
\* withLoadingStatus's finally.
CellStreamInvalid ==
    /\ mpc = "running" /\ migStream
    /\ chunkQueue # <<>>
    /\ ~getMigratedCode(Head(chunkQueue)).ok
    /\ chunkQueue' = Tail(chunkQueue)
    /\ chunkSeen' = Append(chunkSeen, Head(chunkQueue))
    /\ mpc' = "done"
    /\ outcome' = "error"
    /\ cells' = cellsAfterCatch(cells, InitCells)
    /\ lastWrites' = <<>>
    /\ progress' = dismiss(progress)
    /\ stacked' = ErrorOver(progress')
    /\ ExitLoading(migKind = "cell")
    /\ UNCHANGED <<migKind, migStream, response, pos, currentCellIndex, buffer,
                   cellContentMap, hasReceivedData, fullMigratedCode,
                   clearedCell, hasContent, written, segOwner, shadow>>
    /\ UNCHANGED <<migFault, migIncs>>
    /\ UNCHANGED notCellVars

\* The stream ends: dismiss, the warning or the success; then the finally.
CellStreamDone ==
    /\ mpc = "running" /\ migKind = "cell" /\ migStream
    /\ chunkQueue = <<>>
    /\ mpc' = "done"
    /\ outcome' = IF ~hasContent THEN "no_code_received" ELSE "success"
    /\ lastWrites' = <<>>
    /\ progress' = dismiss(progress)
    /\ ExitLoading(FALSE)
    /\ UNCHANGED <<cells, migKind, migStream, response, pos, currentCellIndex,
                   buffer, cellContentMap, hasReceivedData, fullMigratedCode,
                   clearedCell, hasContent, written, segOwner, shadow>>
    /\ UNCHANGED <<migFault, stacked, migIncs>>
    /\ UNCHANGED <<cellVars, notCellVars>>

CellStreamNext == CellStreamChunk \/ CellStreamInvalid \/ CellStreamDone

SpecCell == CellStreamInit /\ [][CellStreamNext]_vars

RECURSIVE ChunkTexts(_)
\* The concatenation of the texts of the chunks of q that carry migrated
\* code, in order.
ChunkTexts(q) ==
    IF Len(q) = 0 THEN <<>>
    ELSE (IF getMigratedCode(Head(q)).ok THEN getMigratedCode(Head(q)).value
          ELSE <<>>)
         \o ChunkTexts(Tail(q))

\* C21: in a streaming single-cell migration the cell holds its original
\* content until a non-empty chunk has arrived, and from then on exactly
\* the concatenation of the texts of the chunks received so far; a stream
\* that ends without a non-empty chunk leaves the original content and
\* ends in the 'No migrated code was received' warning, not in an error.
C21_CellHoldsChunksSoFar ==
    /\ cells[ActiveCell] = IF Len(ChunkTexts(chunkSeen)) > 0
                           THEN ChunkTexts(chunkSeen)
                           ELSE InitCells[ActiveCell]
    /\ clearedCell = (Len(ChunkTexts(chunkSeen)) > 0)
    /\ (mpc = "done" /\ Len(ChunkTexts(chunkSeen)) = 0
          /\ \A i \in 1..Len(chunkSeen) : getMigratedCode(chunkSeen[i]).ok)
          => (outcome = "no_code_received" /\ cells = InitCells /\ ~stacked)

\* Three chunks 'y', '' and 'w ' have arrived and the cell holds 'yw '.
C21_Witness ==
    /\ chunkSeen = <<CodeChunk(<<"y">>), CodeChunk(<<>>), CodeChunk(<<"w", " ">>)>>
    /\ cells[ActiveCell] = <<"y", "w", " ">>
    /\ mpc = "done"
    /\ outcome = "success"

\* --------------------------- the notebook while a migration is in flight

\* The most cells the user inserts, deletes or moves during one migration.
MaxEdits == 1

\* cells.length
Length(cs) == Cardinality(DOMAIN cs)

\* The array after ArrayExt.insert(array, k, v) and ArrayExt.removeAt(array, k),
\* by which the notebook widget keeps content.widgets up to date in place.
InsertAt(f, k, v) ==
    [i \in 0..Length(f) |-> IF i < k THEN f[i] ELSE IF i = k THEN v ELSE f[i - 1]]

RemoveAt(f, k) ==
    [i \in 0..(Length(f) - 2) |-> IF i < k THEN f[i] ELSE f[i + 1]]

\* ArrayExt.move(array, from, to)
MoveTo(f, from, to) == InsertAt(RemoveAt(f, from), to, f[from])

\* The cells a notebook is made of: a code cell, an empty code cell, a
\* markdown cell.
CODE_CELL == [type |-> "code", source |-> <<"x">>]
EMPTY_CELL == [type |-> "code", source |-> <<>>]
MARKDOWN_CELL == [type |-> "markdown", source |-> <<"m">>]
NbCellKinds == {CODE_CELL, EMPTY_CELL, MARKDOWN_CELL}

\* The cell the user inserts.
INSERTED_CELL == [type |-> "code", source |-> <<"n">>]

\* isValidCodeCell(nb_cell), allow_empty being false
isValidCodeCell(type, source) ==
    IF type # "code" THEN FALSE ELSE Len(Trim(source)) > 0

RECURSIVE codeCells(_, _, _)
\* The loop of migrateNotebook that builds codeCells, from cellIndex on.
codeCells(cs, types, cellIndex) ==
    IF cellIndex >= Length(cs) THEN <<>>
    ELSE (IF isValidCodeCell(types[cellIndex], cs[cellIndex])
          THEN <<Marker(cellIndex) \o cs[cellIndex]>> ELSE <<>>)
         \o codeCells(cs, types, cellIndex + 1)

\* What the service answers in these runs: one or two segments behind
\* markers of any index up to NumCells, or the request of two code cells.
NbResponses ==
    {Marker(i) \o <<"a", "\n">> \o Marker(j) \o <<"b">> :
        i \in MarkerIndices, j \in MarkerIndices}
      \cup {Marker(i) \o <<"a">> : i \in MarkerIndices}
      \cup {CombinedCode(InitCells)}

notNbVars ==
    <<provVars, sseVars, migs, bufVars, sbVars, cellVars, compVars, timeoutVars,
      lastVars>>

\* migrateNotebook(notebook, stream) has read notebook.content.widgets and
\* shows its confirmation dialog.
NbInit ==
    /\ \E kinds \in [CellIndices -> NbCellKinds] :
          /\ cells = [i \in CellIndices |-> kinds[i].source]
          /\ cellTypes = [i \in CellIndices |-> kinds[i].type]
    /\ cellIds = [i \in CellIndices |-> i]
    /\ sentIds = [i \in CellIndices |-> i]
    /\ nbRequest = <<>>
    /\ nbEdits = 0
    /\ migKind = "notebook"
    /\ migStream \in BOOLEAN
    /\ response \in NbResponses
    /\ pos = 0
    /\ mpc = "confirm"
    /\ currentCellIndex = -1
    /\ buffer = <<>>
    /\ cellContentMap = <<>>
    /\ hasReceivedData = FALSE
    /\ fullMigratedCode = <<>>
    /\ clearedCell = FALSE
    /\ hasContent = FALSE
    /\ lastWrites = <<>>
    /\ written = {}
    /\ outcome = "none"
    /\ segOwner = <<>>
    /\ shadow = DemuxStart(InitCells)
    /\ activeRequestCount = 0
    /\ NoteIdle
    /\ ProvIdle /\ SseIdle /\ ConcIdle /\ BufIdle /\ SbIdle /\ CellIdle
    /\ CompIdle /\ TimeoutIdle /\ LastIdle

\* 'Yes': setLoadingStatus, codeCells is built; without a code cell the
\* warning and the finally block, with one checkAPIToken and the request.
NbAccept ==
    /\ mpc = "confirm"
    /\ nbRequest' = codeCells(cells, cellTypes, 0)
    /\ sentIds' = cellIds
    /\ migIncs' = migIncs + 1
    /\ IF nbRequest' = <<>>
       THEN /\ mpc' = "done"
            /\ outcome' = "invalid_cell"
            /\ \E st \in {withLoadingStatusFinally(
                             [count |-> setLoadingStatus(activeRequestCount),
                              stops |-> migDecs], FALSE)} :
                  /\ activeRequestCount' = st.count
                  /\ migDecs' = st.stops
            /\ UNCHANGED progress
       ELSE /\ mpc' = "running"
            /\ activeRequestCount' = setLoadingStatus(activeRequestCount)
            /\ progress' = IF migStream THEN showPlanning ELSE progress
            /\ UNCHANGED <<outcome, migDecs>>
    /\ UNCHANGED <<cells, migKind, migStream, response, pos, currentCellIndex,
                   buffer, cellContentMap, hasReceivedData, fullMigratedCode,
                   clearedCell, hasContent, lastWrites, written, segOwner,
                   shadow>>
    /\ UNCHANGED <<migFault, stacked>>
    /\ UNCHANGED <<cellIds, cellTypes, nbEdits, notNbVars>>

\* The user inserts a cell at position k while the migration is in flight.
NbInsert(k) ==
    /\ mpc = "running"
    /\ nbEdits < MaxEdits
    /\ nbEdits' = nbEdits + 1
    /\ cells' = InsertAt(cells, k, INSERTED_CELL.source)
    /\ cellTypes' = InsertAt(cellTypes, k, INSERTED_CELL.type)
    /\ cellIds' = InsertAt(cellIds, k, NumCells + nbEdits)
    /\ lastWrites' = <<>>
    /\ UNCHANGED <<activeRequestCount, migKind, migStream, response, pos, mpc,
                   currentCellIndex, buffer, cellContentMap, hasReceivedData,
                   fullMigratedCode, clearedCell, hasContent, written, outcome,
                   segOwner, shadow>>
    /\ UNCHANGED <<noteVars, sentIds, nbRequest, notNbVars>>

\* The user deletes the cell at position k.
NbDelete(k) ==
    /\ mpc = "running"
    /\ nbEdits < MaxEdits
    /\ nbEdits' = nbEdits + 1
    /\ cells' = RemoveAt(cells, k)
    /\ cellTypes' = RemoveAt(cellTypes, k)
    /\ cellIds' = RemoveAt(cellIds, k)
    /\ lastWrites' = <<>>
    /\ UNCHANGED <<activeRequestCount, migKind, migStream, response, pos, mpc,
                   currentCellIndex, buffer, cellContentMap, hasReceivedData,
                   fullMigratedCode, clearedCell, hasContent, written, outcome,
                   segOwner, shadow>>
    /\ UNCHANGED <<noteVars, sentIds, nbRequest, notNbVars>>

\* The user moves the cell at position from to position to.
NbMove(from, to) ==
    /\ mpc = "running"
    /\ nbEdits < MaxEdits
    /\ from # to
    /\ nbEdits' = nbEdits + 1
    /\ cells' = MoveTo(cells, from, to)
    /\ cellTypes' = MoveTo(cellTypes, from, to)
    /\ cellIds' = MoveTo(cellIds, from, to)
    /\ lastWrites' = <<>>
    /\ UNCHANGED <<activeRequestCount, migKind, migStream, response, pos, mpc,
                   currentCellIndex, buffer, cellContentMap, hasReceivedData,
                   fullMigratedCode, clearedCell, hasContent, written, outcome,
                   segOwner, shadow>>
    /\ UNCHANGED <<noteVars, sentIds, nbRequest, notNbVars>>

\* notebookMigrationStreaming: a chunk of n characters arrives.
NbChunk(n) ==
    /\ mpc = "running" /\ migStream
    /\ pos + n <= Len(response)
    /\ pos + n = Len(response) \/ (pos + n) % ChunkStep = 0
    /\ \E d \in {ProcessChunk(Demux, SubSeq(response, pos + 1, pos + n))} :
           /\ currentCellIndex' = d.currentCellIndex
           /\ buffer' = d.buffer
           /\ cellContentMap' = d.cellContentMap
           /\ cells' = d.cells
           /\ lastWrites' = d.writes
           /\ written' = written \cup WrittenBy(d.writes)
    /\ fullMigratedCode' = fullMigratedCode \o SubSeq(response, pos + 1, pos + n)
    /\ hasReceivedData' = TRUE
    /\ progress' = ProgressOnChunk(progress, Len(fullMigratedCode),
                                 NOTIFICATION_THRESHOLD_NOTEBOOK)
    /\ pos' = pos + n
    /\ UNCHANGED <<activeRequestCount, migKind, migStream, response, mpc,
                   clearedCell, hasContent, outcome, segOwner, shadow>>
    /\ UNCHANGED <<migFault, stacked, migIncs, migDecs>>
    /\ UNCHANGED <<nbVars, notNbVars>>

\* notebookMigrationStreaming: the stream ends, the last cell is finalized;
\* then withLoadingStatus's finally.
NbStreamEnd ==
    /\ mpc = "running" /\ migStream
    /\ pos = Len(response)
    /\ \E d \in {FinalizeLastCell(Demux)} :
           /\ cellContentMap' = d.cellContentMap
           /\ cells' = d.cells
           /\ lastWrites' = d.writes
           /\ written' = written \cup WrittenBy(d.writes)
    /\ outcome' = IF ~hasReceivedData THEN "error" ELSE "success"
    /\ mpc' = "done"
    /\ progress' = dismiss(progress)
    /\ stacked' = IF ~hasReceivedData THEN ErrorOver(progress') ELSE stacked
    /\ ExitLoading(FALSE)
    /\ UNCHANGED <<migKind, migStream, response, pos, currentCellIndex, buffer,
                   hasReceivedData, fullMigratedCode, clearedCell, hasContent,
                   segOwner, shadow>>
    /\ UNCHANGED <<migFault, migIncs>>
    /\ UNCHANGED <<nbVars, notNbVars>>

\* notebookMigration: the whole response arrives, is compared with the
\* request, split at the markers and applied; then the finally block.
NbBatch ==
    /\ mpc = "running" /\ ~migStream
    /\ LET combinedCode == Join(nbRequest, <<"\n", "\n">>)
           applied == ApplySegments([cells |-> cells, writes |-> <<>>],
                                    SplitAtMarkers(response))
       IN  IF Len(response) = 0
           THEN /\ outcome' = "error"
                /\ UNCHANGED cells
                /\ lastWrites' = <<>>
           ELSE IF Trim(response) = Trim(combinedCode)
           THEN /\ outcome' = "nothing_to_migrate"
                /\ UNCHANGED cells
                /\ lastWrites' = <<>>
           ELSE /\ outcome' = "success"
                /\ cells' = applied.cells
                /\ lastWrites' = applied.writes
    /\ written' = written \cup WrittenBy(lastWrites')
    /\ fullMigratedCode' = response
    /\ pos' = Len(response)
    /\ mpc' = "done"
    /\ ExitLoading(FALSE)
    /\ stacked' = IF outcome' = "error" THEN ErrorOver(progress) ELSE stacked
    /\ UNCHANGED <<migKind, migStream, response, currentCellIndex, buffer,
                   cellContentMap, hasReceivedData, clearedCell, hasContent,
                   segOwner, shadow>>
    /\ UNCHANGED <<migFault, progress, migIncs>>
    /\ UNCHANGED <<nbVars, notNbVars>>

NbNext ==
    \/ NbAccept
    \/ \E k \in 0..Length(cells) : NbInsert(k)
    \/ \E k \in DOMAIN cells : NbDelete(k)
    \/ \E from \in DOMAIN cells : \E to \in DOMAIN cells : NbMove(from, to)
    \/ \E n \in 1..(Len(response) - pos) : NbChunk(n)
    \/ NbStreamEnd
    \/ NbBatch

SpecNb == NbInit /\ [][NbNext]_vars

\* C22: every write of a notebook migration at a position the request
\* covered goes to the cell that was at that position when the request was
\* built, whatever the user inserts, deletes or moves in the meantime.
C22_MarkerDesignatesSentCell ==
    \A j \in 1..Len(lastWrites) :
        lastWrites[j].index \in DOMAIN sentIds
            => cellIds[lastWrites[j].index] = sentIds[lastWrites[j].index]

\* The positions of the code cells whose source is not blank.
NonEmptyCodePositions ==
    {i \in DOMAIN cells : cellTypes[i] = "code" /\ Len(Trim(cells[i])) > 0}

\* The request holds exactly the non-empty code cells, in order, each
\* behind the marker of its position among all cells.
RequestOfCodeCells ==
    /\ Len(nbRequest) = Cardinality(NonEmptyCodePositions)
    /\ \A i \in NonEmptyCodePositions :
          \E k \in 1..Len(nbRequest) :
              /\ nbRequest[k] = Marker(i) \o cells[i]
              /\ k = Cardinality({j \in NonEmptyCodePositions : j <= i})

\* C23: when no cell is inserted, deleted or moved, the request of a notebook
\* migration holds exactly the non-empty code cells, each behind the marker
\* of its position among all cells, and no markdown cell is changed by the
\* migration, whatever indices the response carries.
C23_MarkdownUntouched ==
    nbEdits = 0 =>
        /\ (mpc = "running" /\ pos = 0) => RequestOfCodeCells
        /\ \A i \in DOMAIN cells :
              cellTypes[i] # "code" => cells[i] = MARKDOWN_CELL.source

\* ------------------------------------- responses that lack migrated code

\* migrationPromise: migratedCode is response.migrated_code as it came,
\* undefined when the field is absent.
migrationPromise(json) ==
    [migratedCode |-> IF json.migrated_code = <<>> THEN [t |-> "undefined"]
                      ELSE json.migrated_code[1]]

\* validateMigrationResponse: TRUE when it does not throw.
validateMigrationResponse(resp) ==
    resp.migratedCode.t = "str" /\ Len(resp.migratedCode.s) > 0

\* The objects the service may answer with or stream: migrated code (of a
\* cell, or marker-prefixed for a notebook), empty or null code, no code
\* field, an error.
LackObjects(kind) ==
    (IF kind = "cell"
     THEN {CodeChunk(<<"y">>), CodeChunk(<<"x", "\n">>)}
     ELSE {CodeChunk(Marker(0) \o <<"a">>), CodeChunk(<<"b">>)})
      \cup {CodeChunk(<<>>), NullCodeChunk, MissingCodeChunk, ErrorChunk}

\* A migration is running: its request is sent. A non-streaming one is
\* answered by one object, a streaming one by a stream of objects.
LackInit ==
    /\ cells = InitCells
    /\ migKind \in {"cell", "notebook"}
    /\ migStream \in BOOLEAN
    /\ response = <<>>
    /\ pos = 0
    /\ mpc = "running"
    /\ currentCellIndex = -1
    /\ buffer = <<>>
    /\ cellContentMap = <<>>
    /\ hasReceivedData = FALSE
    /\ fullMigratedCode = <<>>
    /\ clearedCell = FALSE
    /\ hasContent = FALSE
    /\ lastWrites = <<>>
    /\ written = {}
    /\ outcome = "none"
    /\ segOwner = <<>>
    /\ shadow = DemuxStart(InitCells)
    /\ activeRequestCount = setLoadingStatus(0)
    /\ migFault = "none"
    /\ progress = IF migStream THEN showPlanning ELSE "none"
    /\ stacked = FALSE
    /\ migIncs = 1
    /\ migDecs = 0
    /\ chunkQueue \in IF migStream
                      THEN SeqsUpTo(LackObjects(migKind), MaxCellChunks)
                      ELSE {<<o>> : o \in LackObjects(migKind)}
    /\ chunkSeen = <<>>
    /\ ProvIdle /\ SseIdle /\ ConcIdle /\ BufIdle /\ SbIdle /\ NbIdle
    /\ CompIdle /\ TimeoutIdle /\ LastIdle

\* cellMigration and notebookMigration: the response arrives and is
\* validated, compared with the request and applied; then the finally block.
BatchResponse ==
    /\ mpc = "running" /\ ~migStream
    /\ chunkQueue # <<>>
    /\ chunkQueue' = Tail(chunkQueue)
    /\ chunkSeen' = Append(chunkSeen, Head(chunkQueue))
    /\ LET migrationResponse == migrationPromise(Head(chunkQueue))
           code == IF migKind = "cell" THEN cells[ActiveCell]
                   ELSE CombinedCode(cells)
       IN  IF ~validateMigrationResponse(migrationResponse)
           THEN /\ outcome' = "error"
                /\ UNCHANGED <<cells, fullMigratedCode>>
                /\ lastWrites' = <<>>
           ELSE IF Trim(migrationResponse.migratedCode.s) = Trim(code)
           THEN /\ outcome' = "nothing_to_migrate"
                /\ UNCHANGED cells
                /\ fullMigratedCode' = migrationResponse.migratedCode.s
                /\ lastWrites' = <<>>
           ELSE /\ outcome' = "success"
                /\ fullMigratedCode' = migrationResponse.migratedCode.s
                /\ \E applied \in
                      {IF migKind = "cell"
                       THEN updateCellUnchecked(cells, ActiveCell,
                                                migrationResponse.migratedCode.s)
                       ELSE [wrote |-> <<>>] @@
                            ApplySegments(
                              [cells |-> cells, writes |-> <<>>],
                              SplitAtMarkers(migrationResponse.migratedCode.s))} :
                      /\ cells' = applied.cells
                      /\ lastWrites' = IF migKind = "cell" THEN applied.wrote
                                       ELSE applied.writes
    /\ written' = written \cup WrittenBy(lastWrites')
    /\ mpc' = "done"
    /\ ExitLoading(migKind = "cell" /\ outcome' = "error")
    /\ stacked' = IF outcome' = "error" THEN ErrorOver(progress) ELSE stacked
    /\ UNCHANGED <<migKind, migStream, response, pos, currentCellIndex, buffer,
                   cellContentMap, hasReceivedData, clearedCell, hasContent,
                   segOwner, shadow>>
    /\ UNCHANGED <<migFault, progress, migIncs>>
    /\ UNCHANGED notCellVars

\* notebookMigrationStreaming: one pass of the 'for await' loop over a chunk
\* whose migrated code is there.
NotebookStreamChunk ==
    /\ mpc = "running" /\ migKind = "notebook" /\ migStream
    /\ chunkQueue # <<>>
    /\ getMigratedCode(Head(chunkQueue)).ok
    /\ chunkQueue' = Tail(chunkQueue)
    /\ chunkSeen' = Append(chunkSeen, Head(chunkQueue))
    /\ \E text \in {getMigratedCode(Head(chunkQueue)).value} :
       \E d \in {ProcessChunk(Demux, text)} :
           /\ currentCellIndex' = d.currentCellIndex
           /\ buffer' = d.buffer
           /\ cellContentMap' = d.cellContentMap
           /\ cells' = d.cells
           /\ lastWrites' = d.writes
           /\ written' = written \cup WrittenBy(d.writes)
           /\ fullMigratedCode' = fullMigratedCode \o text
    /\ hasReceivedData' = TRUE
    /\ progress' = ProgressOnChunk(progress, Len(fullMigratedCode),
                                 NOTIFICATION_THRESHOLD_NOTEBOOK)
    /\ UNCHANGED <<activeRequestCount, migKind, migStream, response, pos, mpc,
                   clearedCell, hasContent, outcome, segOwner, shadow>>
    /\ UNCHANGED <<migFault, stacked, migIncs, migDecs>>
    /\ UNCHANGED notCellVars

\* notebookMigrationStreaming: the stream ends, the last cell is finalized;
\* then the finally block.
NotebookStreamFinish ==
    /\ mpc = "running" /\ migKind = "notebook" /\ migStream
    /\ chunkQueue = <<>>
    /\ \E d \in {FinalizeLastCell(Demux)} :
           /\ cellContentMap' = d.cellContentMap
           /\ cells' = d.cells
           /\ lastWrites' = d.writes
           /\ written' = written \cup WrittenBy(d.writes)
    /\ outcome' = IF ~hasReceivedData THEN "error" ELSE "success"
    /\ mpc' = "done"
    /\ progress' = dismiss(progress)
    /\ stacked' = IF ~hasReceivedData THEN ErrorOver(progress') ELSE stacked
    /\ ExitLoading(FALSE)
    /\ UNCHANGED <<migKind, migStream, response, pos, currentCellIndex, buffer,
                   hasReceivedData, fullMigratedCode, clearedCell, hasContent,
                   segOwner, shadow>>
    /\ UNCHANGED <<migFault, migIncs>>
    /\ UNCHANGED <<cellVars, notCellVars>>

LackNext ==
    \/ BatchResponse
    \/ CellStreamChunk
    \/ CellStreamInvalid
    \/ CellStreamDone
    \/ NotebookStreamChunk
    \/ NotebookStreamFinish

SpecLack == LackInit /\ [][LackNext]_vars

\* The object has no migrated_code field, or carries an error.
LacksCodeField(json) ==
    json.migrated_code = <<>> \/ json.error # <<>>

\* The object's migrated_code is there and is null or the empty string.
HasEmptyCode(json) ==
    /\ json.migrated_code # <<>>
    /\ json.error = <<>>
    /\ json.migrated_code[1].t = "str" => Len(json.migrated_code[1].s) = 0

\* The run has ended in an error at its last object, and that step wrote
\* no cell.
FailedAt(k) ==
    /\ k = Len(chunkSeen)
    /\ mpc = "done"
    /\ outcome = "error"
    /\ lastWrites = <<>>
    /\ ~migStream => cells = InitCells

REQUEST_TEXT == <<"r">>

\* The sentinel of autoComplete and autoCompleteStreaming.
emptyReturn == [items |-> <<>>, prompt_id |-> "", input |-> <<>>]

\* The prompt ids the service gives its responses.
PromptIds == {"p1", "p2"}

\* The chunks the service sends in the response to one prompt: generated
\* text, empty or not, with or without the prompt's id.
CompChunks(pid) ==
    {[generated_text |-> t, prompt_id |-> p] :
        t \in {<<>>, <<"a">>, <<"b", "c">>}, p \in {"", pid}}

\* The responses to one completion: the chunks of a stream, or the one
\* result.
CompResponses(mode) ==
    UNION {IF mode = "stream" THEN SeqsUpTo(CompChunks(pid), MaxChunks)
           ELSE {<<c>> : c \in CompChunks(pid)} : pid \in PromptIds}

\* A parsed chunk of postModelPromptStreaming: null, or an object whose
\* fields generated_text and results are absent (<<>>) or present
\* (<<value>>); results is an array of objects, or of nulls.
JsonStr(text) == [t |-> "str", s |-> text]
JsonNull == [t |-> "null"]
PromptObject(generated_text, results) ==
    [t |-> "obj", generated_text |-> generated_text, results |-> results]
ResultObject(generated_text) ==
    [t |-> "obj", generated_text |-> generated_text]
JsonArray(elements) == [t |-> "arr", a |-> elements]

\* A value that is neither undefined (<<>>) nor null.
NotNullish(field) == field # <<>> /\ field[1].t # "null"

\* getGeneratedText(json):
\* 'json?.generated_text ?? json?.results[0].generated_text ?? ""'.
\* 'json?.' ends the whole chain for a nullish json; results[0] of an
\* undefined or null results, and generated_text of an undefined or null
\* results[0], throw a TypeError.
getGeneratedText(json) ==
    IF json.t = "null" THEN [threw |-> FALSE, value |-> <<>>]
    ELSE IF NotNullish(json.generated_text)
    THEN [threw |-> FALSE, value |-> json.generated_text[1].s]
    ELSE IF ~NotNullish(json.results)
    THEN [threw |-> TRUE, value |-> <<>>]
    ELSE IF Len(json.results[1].a) = 0 \/ json.results[1].a[1].t = "null"
    THEN [threw |-> TRUE, value |-> <<>>]
    ELSE IF NotNullish(json.results[1].a[1].generated_text)
    THEN [threw |-> FALSE, value |-> json.results[1].a[1].generated_text[1].s]
    ELSE [threw |-> FALSE, value |-> <<>>]

\* The item promptPromise and promptPromiseStreaming make of a response
\* that carries its text in the flat generated_text field.
promptItem(chunk) ==
    [items |->
        <<getGeneratedText(
              PromptObject(<<JsonStr(chunk.generated_text)>>, <<>>)).value>>,
     prompt_id |-> chunk.prompt_id,
     input |-> REQUEST_TEXT]

\* A catch block that wraps whatever it caught.
wrapEveryError(error) == "NetworkError"

\* requestAPIStreaming, its catch block: the error it throws for the error
\* caught.
requestAPIStreamingCatch(error) ==
    IF error = "AbortError" THEN "AbortError" ELSE "NetworkError"

\* A catch block that yields nothing.
silentCatch(e) == <<>>

\* autoCompleteStreaming, its catch block: the items it yields for the
\* error caught.
autoCompleteStreamingCatch(e) ==
    IF e = "AbortError" THEN <<>> ELSE <<emptyReturn>>

\* The insertText made of the last part alone.
lastPartOnly(parts) == parts[Len(parts)]

\* textParts.join('')
insertTextOf(parts) == Join(parts, <<>>)

\* stream() that takes the prompt id of every chunk that carries one.
latestPromptId(current, chunkId) ==
    IF chunkId # "" THEN chunkId ELSE current

\* stream(): 'if (lastChunk && lastChunk.prompt_id && !this.prompt_id)
\* this.prompt_id = lastChunk.prompt_id'
promptIdAfterChunk(current, chunkId) ==
    IF chunkId # "" /\ current = "" THEN chunkId ELSE current

\* One pass of the 'for await' loop of stream() over the item lastChunk, on
\* st = [textParts, emitted, prompt_id, lastPrompt].
streamStep(st, lastChunk) ==
    LET hasText == lastChunk.items # <<>> /\ Len(lastChunk.items[1]) > 0
        parts == IF hasText THEN Append(st.textParts, lastChunk.items[1])
                 ELSE st.textParts
    IN  [textParts |-> parts,
         emitted |-> IF hasText THEN Append(st.emitted, insertTextOf(parts))
                     ELSE st.emitted,
         prompt_id |-> promptIdAfterChunk(st.prompt_id, lastChunk.prompt_id),
         lastPrompt |-> IF lastChunk.prompt_id # "" /\ st.prompt_id = ""
                        THEN <<lastChunk>> ELSE st.lastPrompt]

RECURSIVE streamSteps(_, _)
streamSteps(st, items) ==
    IF Len(items) = 0 THEN st
    ELSE streamSteps(streamStep(st, Head(items)), Tail(items))

\* A reader whose lock is released only after the loop has ended normally.
releaseOnlyAtEnd(lock, ending) ==
    IF ending = "none" THEN [lock EXCEPT !.released = @ + 1] ELSE lock

\* requestAPIStreaming, 'finally { reader.releaseLock() }' around the read
\* loop, whatever the ending.
readerFinally(lock, ending) == [lock EXCEPT !.released = @ + 1]

notCompVars ==
    <<migVars, provVars, sseVars, migs, bufVars, sbVars, noteVars, cellVars,
      nbVars, timeoutVars, lastVars>>

\* The provider is new (prompt_id = '') and fetch has returned for its
\* first completion; in streaming mode stream(token) has started
\* autoCompleteStreaming, in the other autoComplete was called. Both await
\* checkAPIToken.
CompInit ==
    /\ cMode \in {"stream", "batch"}
    /\ cPc = "token"
    /\ cQueue \in CompResponses(cMode)
    /\ cSeen = <<>>
    /\ cItems = <<>>
    /\ cThrown = "none"
    /\ cCause = "none"
    /\ cRaised = "none"
    /\ textParts = <<>>
    /\ cEmitted = <<>>
    /\ prompt_id = ""
    /\ cAccepted = <<>>
    /\ cLock = [acquired |-> 0, released |-> 0]
    /\ cNotes = 0
    /\ lastPrompt = <<>>
    /\ activeRequestCount = 0
    /\ MigIdle /\ cells = InitCells
    /\ ProvIdle /\ SseIdle /\ ConcIdle /\ BufIdle /\ SbIdle /\ NoteIdle
    /\ CellIdle /\ NbIdle /\ TimeoutIdle /\ LastIdle

\* The items reach the consumer: stream() runs its loop over them and,
\* when the loop ends with the generator (loopEnds), 'if (lastChunk)
\* lastPrompt = lastChunk'; the 'then' of fetch takes the prompt id of the
\* result and, when it has one, the result as lastPrompt.
Deliver(items, loopEnds) ==
    /\ cItems' = cItems \o items
    /\ IF cMode = "stream"
       THEN \E st \in {streamSteps([textParts |-> textParts,
                                    emitted |-> cEmitted,
                                    prompt_id |-> prompt_id,
                                    lastPrompt |-> lastPrompt], items)} :
               /\ textParts' = st.textParts
               /\ cEmitted' = st.emitted
               /\ prompt_id' = st.prompt_id
               /\ lastPrompt' = IF loopEnds /\ cItems' # <<>>
                                THEN <<cItems'[Len(cItems')]>>
                                ELSE st.lastPrompt
       ELSE /\ prompt_id' = IF items # <<>> THEN items[1].prompt_id
                            ELSE prompt_id
            /\ lastPrompt' = IF items # <<>> /\ items[1].prompt_id # ""
                             THEN <<items[1]>> ELSE lastPrompt
            /\ UNCHANGED <<textParts, cEmitted>>

\* The completion is over, cause being the error that ended it or, without
\* an error, the way it ended: the finally blocks of autoCompleteStreaming
\* and of stream(), or the one of autoComplete.
Finally(cause) ==
    /\ cPc' = "done"
    /\ cCause' = cause
    /\ activeRequestCount' =
          IF cMode = "stream"
          THEN stopLoadingStatus(stopLoadingStatus(activeRequestCount))
          ELSE stopLoadingStatus(activeRequestCount)

\* checkAPIToken rejects: the catch yields (returns) the sentinel.
CompTokenFail ==
    /\ cPc = "token"
    /\ Deliver(IF cMode = "stream" THEN autoCompleteStreamingCatch("token")
               ELSE <<emptyReturn>>, TRUE)
    /\ Finally("token")
    /\ UNCHANGED <<cMode, cQueue, cSeen, cThrown, cRaised, cAccepted, cLock,
                   cNotes, notCompVars>>

\* getCurrentModel() is undefined: the sentinel.
CompNoModel ==
    /\ cPc = "token"
    /\ Deliver(<<emptyReturn>>, TRUE)
    /\ Finally("no_model")
    /\ UNCHANGED <<cMode, cQueue, cSeen, cThrown, cRaised, cAccepted, cLock,
                   cNotes, notCompVars>>

\* The model's disclaimer is accepted already: promptPromise(Streaming)
\* calls setLoadingStatus and sends the request.
CompModelReady ==
    /\ cPc = "token"
    /\ cPc' = "request"
    /\ activeRequestCount' = setLoadingStatus(activeRequestCount)
    /\ UNCHANGED <<cMode, cQueue, cSeen, cItems, cThrown, cCause, cRaised,
                   textParts, cEmitted, prompt_id, cAccepted, cLock, cNotes, lastPrompt,
                   notCompVars>>

\* The disclaimer is not accepted yet: showDisclaimer is awaited.
CompAskDisclaimer ==
    /\ cPc = "token"
    /\ cPc' = "disclaimer"
    /\ UNCHANGED <<activeRequestCount, cMode, cQueue, cSeen, cItems, cThrown,
                   cCause, cRaised, textParts, cEmitted, prompt_id, cAccepted,
                   cLock, cNotes, lastPrompt, notCompVars>>

\* The user accepts the disclaimer.
CompDisclaimerYes ==
    /\ cPc = "disclaimer"
    /\ cPc' = "request"
    /\ activeRequestCount' = setLoadingStatus(activeRequestCount)
    /\ UNCHANGED <<cMode, cQueue, cSeen, cItems, cThrown, cCause, cRaised,
                   textParts, cEmitted, prompt_id, cAccepted, cLock, cNotes, lastPrompt,
                   notCompVars>>

\* The user declines the disclaimer: the sentinel.
CompDisclaimerNo ==
    /\ cPc = "disclaimer"
    /\ Deliver(<<emptyReturn>>, TRUE)
    /\ Finally("declined")
    /\ UNCHANGED <<cMode, cQueue, cSeen, cThrown, cRaised, cAccepted, cLock,
                   cNotes, notCompVars>>

\* The errors caught by requestAPIStreaming before it has a reader: the
\* AbortError of an aborted signal, a failed request, the ResponseError of
\* a response without body.
RequestErrors == {"AbortError", "TypeError", "ResponseError"}

\* The request fails. Streaming: requestAPIStreaming's catch throws, the
\* generators above pass it on, autoCompleteStreaming's catch handles it.
\* Otherwise postModelPrompt rejects and autoComplete's catch returns the
\* sentinel.
CompRequestFail(error) ==
    /\ cPc = "request"
    /\ cMode = "batch" => error = "TypeError"
    /\ IF cMode = "stream"
       THEN \E raised \in {requestAPIStreamingCatch(error)} :
               /\ cRaised' = raised
               /\ Deliver(autoCompleteStreamingCatch(raised), TRUE)
               /\ Finally(error)
       ELSE /\ UNCHANGED cRaised
            /\ Deliver(<<emptyReturn>>, TRUE)
            /\ Finally(error)
    /\ UNCHANGED <<cMode, cQueue, cSeen, cThrown, cAccepted, cLock, cNotes,
                   notCompVars>>

\* The request is answered. Streaming: response.body.getReader(), and the
\* first read is awaited. Otherwise autoComplete resolves with the result.
CompRequestOk ==
    /\ cPc = "request"
    /\ IF cMode = "stream"
       THEN /\ cPc' = "read"
            /\ cLock' = [cLock EXCEPT !.acquired = @ + 1]
            /\ UNCHANGED <<activeRequestCount, cQueue, cSeen, cItems, cCause,
                           textParts, cEmitted, prompt_id,
                           lastPrompt>>
       ELSE /\ cSeen' = Append(cSeen, Head(cQueue))
            /\ cQueue' = Tail(cQueue)
            /\ Deliver(<<promptItem(Head(cQueue))>>, TRUE)
            /\ Finally("none")
            /\ UNCHANGED cLock
    /\ UNCHANGED <<cMode, cThrown, cRaised, cAccepted, cNotes, notCompVars>>

\* reader.read() returns a chunk: it is decoded, yielded by every generator
\* up to stream(), and stream() asks for the next one.
CompReadChunk ==
    /\ cPc = "read"
    /\ cQueue # <<>>
    /\ cSeen' = Append(cSeen, Head(cQueue))
    /\ cQueue' = Tail(cQueue)
    /\ Deliver(<<promptItem(Head(cQueue))>>, FALSE)
    /\ UNCHANGED <<activeRequestCount, cMode, cPc, cThrown, cCause, cRaised,
                   cAccepted, cLock, cNotes, notCompVars>>

\* reader.read() returns done: requestAPIStreaming's finally releases the
\* lock and every generator returns.
CompReadDone ==
    /\ cPc = "read"
    /\ cQueue = <<>>
    /\ cLock' = readerFinally(cLock, "none")
    /\ Deliver(<<>>, TRUE)
    /\ Finally("none")
    /\ UNCHANGED <<cMode, cQueue, cSeen, cThrown, cRaised, cAccepted, cNotes,
                   notCompVars>>

\* The errors reader.read() rejects with: the AbortError of an aborted
\* signal, or another error.
ReadErrors == {"AbortError", "Error"}

\* reader.read() rejects: the finally releases the lock, the catch throws,
\* autoCompleteStreaming's catch handles it.
CompReadFail(error) ==
    /\ cPc = "read"
    /\ cLock' = readerFinally(cLock, error)
    /\ \E raised \in {requestAPIStreamingCatch(error)} :
          /\ cRaised' = raised
          /\ Deliver(autoCompleteStreamingCatch(raised), TRUE)
          /\ Finally(error)
    /\ UNCHANGED <<cMode, cQueue, cSeen, cThrown, cAccepted, cNotes,
                   notCompVars>>

\* The consumer of stream() abandons it at the item just emitted: return()
\* runs the finally blocks of every generator down to requestAPIStreaming.
CompAbandon ==
    /\ cPc = "read"
    /\ cSeen # <<>> /\ Len(cSeen[Len(cSeen)].generated_text) > 0
    /\ cLock' = readerFinally(cLock, "abandoned")
    /\ Deliver(<<>>, FALSE)
    /\ Finally("abandoned")
    /\ UNCHANGED <<cMode, cQueue, cSeen, cThrown, cRaised, cAccepted, cNotes,
                   notCompVars>>

\* accept(): postModelPromptAccept(this.prompt_id) when there is one.
CompAccept ==
    /\ cPc = "done"
    /\ cAccepted = <<>>
    /\ cAccepted' = IF prompt_id # "" THEN <<prompt_id>> ELSE cAccepted
    /\ UNCHANGED <<activeRequestCount, cMode, cPc, cQueue, cSeen, cItems,
                   cThrown, cCause, cRaised, textParts, cEmitted, prompt_id,
                   cLock, cNotes, lastPrompt, notCompVars>>

\* The next completion of the same provider: fetch starts it as it did
\* the first; the provider keeps its prompt_id.
CompAgain ==
    /\ cPc = "done"
    /\ cPc' = "token"
    /\ cMode' \in {"stream", "batch"}
    /\ cQueue' \in CompResponses(cMode')
    /\ cSeen' = <<>>
    /\ cItems' = <<>>
    /\ cCause' = "none"
    /\ cRaised' = "none"
    /\ textParts' = <<>>
    /\ cEmitted' = <<>>
    /\ cAccepted' = <<>>
    /\ cLock' = [acquired |-> 0, released |-> 0]
    /\ UNCHANGED <<activeRequestCount, cThrown, prompt_id, cNotes, lastPrompt,
                   notCompVars>>

CompNext ==
    \/ CompTokenFail
    \/ CompNoModel
    \/ CompModelReady
    \/ CompAskDisclaimer
    \/ CompDisclaimerYes
    \/ CompDisclaimerNo
    \/ \E error \in RequestErrors : CompRequestFail(error)
    \/ CompRequestOk
    \/ CompReadChunk
    \/ CompReadDone
    \/ \E error \in ReadErrors : CompReadFail(error)
    \/ CompAbandon
    \/ CompAccept
    \/ CompAgain

SpecComp == CompInit /\ [][CompNext]_vars

\* The texts of the chunks of seen that are not empty, in order.
NonEmptyTexts(seen) ==
    SelectSeq([i \in 1..Len(seen) |-> seen[i].generated_text],
              LAMBDA t : Len(t) > 0)

\* C25: stream(token) has emitted one item per received chunk with
\* non-empty text, the k-th insertText is the concatenation of the first k
\* non-empty texts in arrival order, and each strictly extends the one
\* before.
C25_EmitsGrowingText ==
    cMode = "stream" =>
        /\ Len(cEmitted) = Len(NonEmptyTexts(cSeen))
        /\ \A k \in 1..Len(cEmitted) :
              cEmitted[k] = Join(SubSeq(NonEmptyTexts(cSeen), 1, k), <<>>)
        /\ \A k \in 2..Len(cEmitted) :
              /\ Len(cEmitted[k]) > Len(cEmitted[k - 1])
              /\ SubSeq(cEmitted[k], 1, Len(cEmitted[k - 1])) = cEmitted[k - 1]

\* The chunks 'a' and 'bc' have arrived: 'a', then 'abc' were emitted.
C25_Witness ==
    /\ cMode = "stream"
    /\ Len(cSeen) = 2
    /\ cEmitted = <<<<"a">>, <<"a", "b", "c">>>>

\* The prompt ids the chunks of seen carry, in order.
PromptIdsOf(seen) ==
    SelectSeq([i \in 1..Len(seen) |-> seen[i].prompt_id], LAMBDA p : p # "")

\* C26: after a streaming completion has delivered chunks carrying a prompt
\* id, the provider holds that stream's prompt id, and accept() reports it,
\* whatever prompt id an earlier completion left.
C26_HoldsStreamPromptId ==
    (cMode = "stream" /\ PromptIdsOf(cSeen) # <<>>) =>
        /\ prompt_id = PromptIdsOf(cSeen)[Len(PromptIdsOf(cSeen))]
        /\ cAccepted # <<>> =>
              cAccepted = <<PromptIdsOf(cSeen)[Len(PromptIdsOf(cSeen))]>>

\* C27: requestAPIStreaming throws an AbortError it caught unchanged and a
\* NetworkError for every other error; a completion ended by an AbortError
\* has emitted the items of its chunks and nothing else, and no
\* notification.
C27_AbortDistinctAndSilent ==
    cMode = "stream" =>
        /\ cCause = "AbortError" => cRaised = "AbortError"
        /\ cCause \in {"TypeError", "ResponseError", "Error"} =>
              cRaised = "NetworkError"
        /\ cCause = "AbortError" =>
              /\ cItems = [i \in 1..Len(cSeen) |-> promptItem(cSeen[i])]
              /\ \A i \in 1..Len(cItems) : cItems[i] # emptyReturn
              /\ cNotes = 0
              /\ cThrown = "none"

\* A read was aborted after a chunk had arrived.
C27_Witness ==
    /\ cMode = "stream"
    /\ cPc = "done"
    /\ cCause = "AbortError"
    /\ cRaised = "AbortError"
    /\ Len(cSeen) = 1
    /\ cLock.acquired = 1

\* A response without body was reported as a NetworkError.
C27_WitnessNetwork ==
    /\ cMode = "stream"
    /\ cPc = "done"
    /\ cCause = "ResponseError"
    /\ cRaised = "NetworkError"

\* C28: once the reader is acquired its lock is released exactly once on
\* every ending: end of stream, read error, abort during a read, the
\* consumer abandoning the iteration; and never before the ending.
C28_LockReleasedOnce ==
    /\ cLock.acquired \in {0, 1}
    /\ cPc = "read" => cLock = [acquired |-> 1, released |-> 0]
    /\ cPc = "done" => cLock.released = cLock.acquired
    /\ (cPc = "done" /\ cCause \in {"Error", "abandoned"}) =>
          cLock = [acquired |-> 1, released |-> 1]

\* The consumer abandoned the iteration and the lock is released.
C28_Witness ==
    /\ cPc = "done"
    /\ cCause = "abandoned"
    /\ cLock = [acquired |-> 1, released |-> 1]

\* The number of sentinels among items.
Sentinels(items) ==
    Cardinality({i \in 1..Len(items) : items[i] = emptyReturn})

\* The causes of C29: no model, a declined disclaimer, a token failure, a
\* request failure.
FailureCauses ==
    {"no_model", "declined", "token", "TypeError", "ResponseError", "Error"}

\* C29: autoComplete and autoCompleteStreaming throw nothing to their
\* consumer; after no model, a declined disclaimer, a token failure or a
\* request failure autoComplete has returned the sentinel and
\* autoCompleteStreaming has emitted exactly one sentinel, as its last
\* item.
C29_SentinelInsteadOfError ==
    /\ cThrown = "none"
    /\ (cPc = "done" /\ cCause \in FailureCauses) =>
          /\ cMode = "batch" => cItems = <<emptyReturn>>
          /\ cMode = "stream" =>
                /\ Sentinels(cItems) = 1
                /\ cItems[Len(cItems)] = emptyReturn

\* A streaming completion whose read failed after a chunk: the chunk's
\* item, then the sentinel.
C29_Witness ==
    /\ cMode = "stream"
    /\ cPc = "done"
    /\ cCause = "Error"
    /\ Len(cItems) = 2
    /\ cItems[2] = emptyReturn

\* A completion without streaming whose request failed: the sentinel.
C29_WitnessBatch ==
    /\ cMode = "batch"
    /\ cPc = "done"
    /\ cCause = "TypeError"
    /\ cItems = <<emptyReturn>>

\* ------------------------------- the timeout of a streaming completion

\* schema.default.timeout of the inline provider.
SCHEMA_TIMEOUT == 15000

\* The base used when the schema gives no timeout.
FALLBACK_TIMEOUT == 30000

\* The cap of the bonus for large contexts.
MAX_CONTEXT_BONUS == 60000

LengthStep == 25
MaxTextSteps == 60

\* '(this.schema.default as any).timeout || 30000'
baseTimeout == IF SCHEMA_TIMEOUT # 0 THEN SCHEMA_TIMEOUT ELSE FALLBACK_TIMEOUT

Min(a, b) == IF a <= b THEN a ELSE b

\* 'Math.min(Math.floor(text.length / 50), 60000)'
contextBonus(textLength) == Min(textLength \div 50, MAX_CONTEXT_BONUS)

\* 'const timeout = baseTimeout + contextBonus'
adaptiveTimeout(textLength) == baseTimeout + contextBonus(textLength)

\* The lengths of the texts fetch is called with: short ones, and ones
\* around the length at which the bonus reaches its cap (getInputText joins
\* every cell above the active one, without limit).
InputLengths ==
    {LengthStep * k : k \in 0..MaxTextSteps}
        \cup {50 * MAX_CONTEXT_BONUS + d : d \in {-50, -1, 0, 49, 50}}
        \cup {50 * MAX_CONTEXT_BONUS + LengthStep * MaxTextSteps}

TimeoutInit ==
    /\ tLength \in InputLengths
    /\ tTimeout = 0
    /\ activeRequestCount = 0
    /\ MigIdle /\ cells = InitCells
    /\ ProvIdle /\ SseIdle /\ ConcIdle /\ BufIdle /\ SbIdle /\ NoteIdle
    /\ CellIdle /\ NbIdle /\ CompIdle /\ LastIdle

\* fetch with streaming enabled arms the timer.
TimeoutArm ==
    /\ tTimeout = 0
    /\ tTimeout' = adaptiveTimeout(tLength)
    /\ UNCHANGED <<tLength, activeRequestCount, migVars, provVars, sseVars,
                   migs, bufVars, sbVars, noteVars, cellVars, nbVars, compVars,
                   lastVars>>

\* The timer is cleared or fires, and fetch is called with another text.
TimeoutOver ==
    /\ tTimeout # 0
    /\ tTimeout' = 0
    /\ tLength' \in InputLengths
    /\ UNCHANGED <<activeRequestCount, migVars, provVars, sseVars, migs,
                   bufVars, sbVars, noteVars, cellVars, nbVars, compVars,
                   lastVars>>

TimeoutNext ==
    \/ TimeoutArm
    \/ TimeoutOver

SpecTimeout == TimeoutInit /\ [][TimeoutNext]_vars

\* C30: the armed timeout is 30 s plus min(floor(inputLength / 50), 60000)
\* milliseconds, lies between 30 s and 90 s, and does not decrease when the
\* input grows.
C30_ThirtySecondBase ==
    /\ tTimeout # 0 =>
          /\ tTimeout = 30 * 1000 + Min(tLength \div 50, 60 * 1000)
          /\ 30 * 1000 <= tTimeout
          /\ tTimeout <= 90 * 1000
    /\ \A a, b \in InputLengths :
          a <= b => adaptiveTimeout(a) <= adaptiveTimeout(b)

\* ------------------------------ one prompt: request text and chunk text

\* CHAR_LIMIT of the autocomplete service.
CHAR_LIMIT == 4000

\* The most characters an input is longer or shorter than CHAR_LIMIT, and
\* the most characters of a short input.
MaxAround == 2
MaxShort == 3

Max(a, b) == IF a >= b THEN a ELSE b

TextChars == <<"a", "b", "c">>

\* The text of n characters whose i-th character is picked by the stride p.
TextOf(n, p) == [i \in 1..n |-> TextChars[((i * p) % 3) + 1]]

\* The texts autoComplete is called with: short ones, and ones around
\* CHAR_LIMIT characters.
PromptTexts ==
    {TextOf(n, p) :
        n \in (0..MaxShort)
              \cup ((CHAR_LIMIT - MaxAround)..(CHAR_LIMIT + MaxAround)),
        p \in {1, 2}}

\* A request text made of the leading characters.
leadingSlice(text) == Substring2(text, 0, Min(Len(text), CHAR_LIMIT))

\* autoComplete and autoCompleteStreaming:
\* 'startingOffset = Math.max(0, text.length - CHAR_LIMIT)' and
\* 'requestText = text.slice(startingOffset, text.length)'.
requestTextOf(text) ==
    LET startingOffset == Max(0, Len(text) - CHAR_LIMIT)
    IN  Substring2(text, startingOffset, Len(text))

\* The chunks a stream may carry: the flat shape, the nested one, both,
\* neither, and nulls in their places.
PromptTextsOfChunk == {<<>>, <<"x">>}
PromptFields ==
    {<<>>, <<JsonNull>>} \cup {<<JsonStr(t)>> : t \in PromptTextsOfChunk}
PromptResults ==
    {<<>>, <<JsonNull>>, <<JsonArray(<<>>)>>, <<JsonArray(<<JsonNull>>)>>}
        \cup {<<JsonArray(<<ResultObject(f)>>)>> :
                f \in {<<>>, <<JsonStr(<<"y">>)>>}}
PromptChunks ==
    {JsonNull} \cup {PromptObject(g, r) : g \in PromptFields, r \in PromptResults}

PromptInit ==
    /\ pText \in PromptTexts
    /\ pRequest = NoRequest
    /\ pChunk \in PromptChunks
    /\ pItem = NoItem
    /\ activeRequestCount = 0
    /\ MigIdle /\ cells = InitCells
    /\ ProvIdle /\ SseIdle /\ ConcIdle /\ BufIdle /\ SbIdle /\ NoteIdle
    /\ CellIdle /\ NbIdle /\ CompIdle /\ TimeoutIdle /\ AutoIdle
    /\ ListenerIdle /\ LoopIdle

notPromptVars ==
    <<activeRequestCount, migVars, provVars, sseVars, migs, bufVars, sbVars,
      noteVars, cellVars, nbVars, compVars, timeoutVars, autoVars,
      listenerVars, loopVars>>

\* autoComplete or autoCompleteStreaming cuts the text and hands it to
\* promptPromise or promptPromiseStreaming, which submits it.
PromptSubmit(via) ==
    /\ ~pRequest.sent
    /\ pRequest' = [sent |-> TRUE, via |-> via, text |-> requestTextOf(pText)]
    /\ UNCHANGED <<pText, pChunk, pItem, notPromptVars>>

\* promptPromiseStreaming receives the chunk and makes its item, unless
\* getGeneratedText throws.
PromptChunk ==
    /\ pRequest.sent /\ pRequest.via = "autoCompleteStreaming"
    /\ pItem = NoItem
    /\ \E g \in {getGeneratedText(pChunk)} :
          pItem' = IF g.threw THEN [kind |-> "TypeError", text |-> <<>>]
                   ELSE [kind |-> "item", text |-> g.value]
    /\ UNCHANGED <<pText, pRequest, pChunk, notPromptVars>>

PromptNext ==
    \/ PromptSubmit("autoComplete")
    \/ PromptSubmit("autoCompleteStreaming")
    \/ PromptChunk

SpecPrompt == PromptInit /\ [][PromptNext]_vars

\* C31: the text submitted is the trailing 4000 characters of an input
\* longer than 4000 characters, and the whole input otherwise.
C31_TrailingSlice ==
    pRequest.sent =>
        IF Len(pText) > 4 * 1000
        THEN /\ Len(pRequest.text) = 4 * 1000
             /\ \A i \in 1..(4 * 1000) :
                   pRequest.text[i] = pText[Len(pText) - 4 * 1000 + i]
        ELSE pRequest.text = pText

\* An input of 4002 characters was submitted by the streaming service.
C31_Witness ==
    /\ pRequest.sent
    /\ pRequest.via = "autoCompleteStreaming"
    /\ Len(pText) = 4 * 1000 + 2
    /\ Len(pRequest.text) = 4 * 1000

\* The text C32 expects of a chunk.
ExpectedText(chunk) ==
    IF chunk.t = "null" THEN <<>>
    ELSE IF NotNullish(chunk.generated_text) THEN chunk.generated_text[1].s
    ELSE IF /\ NotNullish(chunk.results)
            /\ Len(chunk.results[1].a) > 0
            /\ chunk.results[1].a[1].t = "obj"
            /\ NotNullish(chunk.results[1].a[1].generated_text)
    THEN chunk.results[1].a[1].generated_text[1].s
    ELSE <<>>

\* C32: the text of a chunk is its flat generated_text when present,
\* otherwise results[0].generated_text, otherwise empty, and no chunk
\* raises an error.
C32_FlatThenNestedThenEmpty ==
    pItem # NoItem =>
        /\ pItem.kind = "item"
        /\ pItem.text = ExpectedText(pChunk)

\* --------------------------------------- overlapping calls of autoComplete

\* All the variables of the other components.
notAutoVars ==
    <<migVars, provVars, sseVars, migs, bufVars, sbVars, noteVars, cellVars,
      nbVars, compVars, timeoutVars, promptVars, listenerVars, loopVars>>

AutoInit ==
    /\ AutoIdle
    /\ activeRequestCount = 0
    /\ MigIdle /\ cells = InitCells
    /\ ProvIdle /\ SseIdle /\ ConcIdle /\ BufIdle /\ SbIdle /\ NoteIdle
    /\ CellIdle /\ NbIdle /\ CompIdle /\ TimeoutIdle /\ PromptIdle
    /\ ListenerIdle /\ LoopIdle

\* autoComplete, its finally: 'if (activeRequestController ===
\* requestController) { activeRequestController = null;
\* stopLoadingStatus() }': the count after it.
finallyCount(count, controller, c) ==
    IF controller = c THEN stopLoadingStatus(count) ELSE count

\* The stored controller after the finally of call c.
finallyController(controller, c) == IF controller = c THEN 0 ELSE controller

\* Call c settles with result.
AutoSettle(c, result) ==
    /\ acPc' = [acPc EXCEPT ![c] = "done"]
    /\ acResult' = [acResult EXCEPT ![c] = result]
    /\ activeRequestCount' =
          finallyCount(activeRequestCount, activeRequestController, c)
    /\ activeRequestController' =
          finallyController(activeRequestController, c)

\* autoComplete is called: the stored controller, if any, is aborted and
\* the loading status stopped; the call stores its own controller and
\* awaits checkAPIToken. Calls are numbered in the order they are made.
AutoStart(c) ==
    /\ acPc[c] = "idle"
    /\ \A d \in AutoCalls : d < c => acPc[d] # "idle"
    /\ IF activeRequestController # 0
       THEN /\ acAborted' = acAborted \cup {activeRequestController}
            /\ activeRequestCount' = stopLoadingStatus(activeRequestCount)
       ELSE UNCHANGED <<acAborted, activeRequestCount>>
    /\ activeRequestController' = c
    /\ acPc' = [acPc EXCEPT ![c] = "token"]
    /\ UNCHANGED <<acResult, acOther, notAutoVars>>

\* checkAPIToken rejects: the catch returns emptyReturn.
AutoTokenFail(c) ==
    /\ acPc[c] = "token"
    /\ AutoSettle(c, "emptyReturn")
    /\ UNCHANGED <<acAborted, acOther, notAutoVars>>

\* No model is selected, or the disclaimer is declined: emptyReturn.
AutoNoModel(c) ==
    /\ acPc[c] = "token"
    /\ AutoSettle(c, "emptyReturn")
    /\ UNCHANGED <<acAborted, acOther, notAutoVars>>

\* promptPromise: setLoadingStatus, then postModelPrompt(model,
\* requestText), which is given no signal.
AutoRequest(c) ==
    /\ acPc[c] = "token"
    /\ acPc' = [acPc EXCEPT ![c] = "request"]
    /\ activeRequestCount' = setLoadingStatus(activeRequestCount)
    /\ UNCHANGED <<acResult, activeRequestController, acAborted, acOther,
                   notAutoVars>>

\* The service answers: the call resolves with the completion.
AutoResponse(c) ==
    /\ acPc[c] = "request"
    /\ AutoSettle(c, "completion")
    /\ UNCHANGED <<acAborted, acOther, notAutoVars>>

\* The request fails: the catch returns emptyReturn.
AutoRequestFail(c) ==
    /\ acPc[c] = "request"
    /\ AutoSettle(c, "emptyReturn")
    /\ UNCHANGED <<acAborted, acOther, notAutoVars>>

\* Another request (a migration) starts: setLoadingStatus.
AutoOtherStart ==
    /\ acOther = 0
    /\ acOther' = 1
    /\ activeRequestCount' = setLoadingStatus(activeRequestCount)
    /\ UNCHANGED <<acPc, acResult, activeRequestController, acAborted,
                   notAutoVars>>

\* The other request ends: stopLoadingStatus.
AutoOtherStop ==
    /\ acOther = 1
    /\ acOther' = 0
    /\ activeRequestCount' = stopLoadingStatus(activeRequestCount)
    /\ UNCHANGED <<acPc, acResult, activeRequestController, acAborted,
                   notAutoVars>>

AutoNext ==
    \/ \E c \in AutoCalls :
          \/ AutoStart(c)
          \/ AutoTokenFail(c)
          \/ AutoNoModel(c)
          \/ AutoRequest(c)
          \/ AutoResponse(c)
          \/ AutoRequestFail(c)
    \/ AutoOtherStart
    \/ AutoOtherStop

SpecAuto == AutoInit /\ [][AutoNext]_vars

\* Every call made has settled.
AllSettled == \A c \in AutoCalls : acPc[c] \in {"idle", "done"}

\* C33: once all calls of autoComplete have settled the counter equals the
\* number of other requests still in flight.
C33_NetContributionZero ==
    AllSettled => activeRequestCount = acOther

\* C34: at most one request of autoComplete is active at a time, and a call
\* whose controller was aborted by a later call resolves with the empty
\* result, never with its completion.
C34_EarlierCallCancelled ==
    /\ Cardinality({c \in AutoCalls : acPc[c] = "request"}) <= 1
    /\ \A c \in acAborted : acPc[c] = "done" => acResult[c] = "emptyReturn"

\* ------------------------------ the status bar refreshed while loading

\* The models of the service.
SbModels == {"granite", "mistral"}

\* setCurrentModel(model): the model of the list, or undefined, becomes
\* the current one, and the status bar is refreshed.
SbSetCurrentModel ==
    /\ Len(sbCalls) < MaxCalls
    /\ sbModel' \in SbModels \cup {"none"}
    /\ sbHtml' = refreshStatusBar(sbModel')
    /\ sbCalls' = Append(sbCalls, "setCurrentModel")
    /\ UNCHANGED <<activeRequestCount, notSbVars>>

\* refreshModelsList(): the current model if the new list has it, else the
\* first of the list, and the status bar is refreshed.
SbRefreshModelsList ==
    /\ Len(sbCalls) < MaxCalls
    /\ \E models \in (SUBSET SbModels) \ {{}} :
          sbModel' \in IF sbModel \in models THEN {sbModel} ELSE models
    /\ sbHtml' = refreshStatusBar(sbModel')
    /\ sbCalls' = Append(sbCalls, "refreshModelsList")
    /\ UNCHANGED <<activeRequestCount, notSbVars>>

SbRefreshNext ==
    \/ SbSetLoadingStatus
    \/ SbStopLoadingStatus
    \/ SbSetCurrentModel
    \/ SbRefreshModelsList

SpecRefresh == SbInit /\ [][SbRefreshNext]_vars

\* C35: while the counter is above zero the spinner is displayed, also
\* after a refresh of the status bar, and the spinner disappears only when
\* the counter returns to zero.
C35_SpinnerSurvivesRefresh ==
    /\ [](activeRequestCount > 0 => sbHtml.spinners = 1)
    /\ [][sbHtml'.spinners < sbHtml.spinners => activeRequestCount' = 0]_vars

\* --------------------------- streaming and non-streaming notebook migration

\* The cells notebookMigration (non-streaming) leaves for a response: none
\* written for an empty response or one equal to the request up to
\* surrounding white space, else the split response applied.
notebookMigrationCells(cs, migratedCode) ==
    IF Len(migratedCode) = 0 \/ Trim(migratedCode) = Trim(CombinedCode(cs))
    THEN cs
    ELSE ApplySegments([cells |-> cs, writes |-> <<>>],
                       SplitAtMarkers(migratedCode)).cells

\* C36: a finished streaming notebook migration, however chunked, leaves
\* every cell with the content the non-streaming migration gives for the
\* same combined migrated text.
C36_StreamingMatchesBatch ==
    NotebookStreamDone =>
        cells = notebookMigrationCells(InitCells, response)

\* C37: lastPrompt is undefined or a completion with a non-empty
\* prompt_id; the empty sentinel never becomes lastPrompt, with or without
\* streaming.
C37_LastPromptHasPromptId ==
    lastPrompt # <<>> =>
        /\ lastPrompt[1].prompt_id # ""
        /\ lastPrompt[1] # emptyReturn

\* =========================================================================
\* The listeners that cancel streaming sessions (QiskitCompletionProvider.ts)
\* =========================================================================

MaxFocusTimers == 2
MaxNotebooks == 1
Notebooks == 1..MaxNotebooks
Keys == {"Escape", "a"}

\* The events after which no session may be left.
CancelEvents ==
    {"escape", "focusTimer", "contentChanged", "activeCellChanged",
     "shellChanged", "dispose"}

\* The registry is emptied and the counter decremented, no controller is
\* aborted.
clearOnly(p) ==
    [streamPromises |-> {},
     aborted |-> p.aborted,
     timerArmed |-> [t \in Tokens |->
                       p.timerArmed[t] /\ t \notin p.streamPromises],
     count |-> StopTimes(p.count, Cardinality(p.streamPromises))]

\* The body shared by the handlers: 'if (this._streamPromises.size > 0) {
\* this.cancelAllStreams() }'.
onCancelEvent(p) ==
    IF Cardinality(p.streamPromises) > 0 THEN cancelAllStreams(p) ELSE p

\* All the variables but the provider's and the listeners'.
notListenerVars ==
    <<cells, migVars, sseVars, migs, bufVars, sbVars, noteVars, cellVars,
      nbVars, compVars, timeoutVars, promptVars, autoVars, loopVars>>

\* What a handler that ends in the provider state q leaves behind.
Handled(op, q) ==
    /\ SetProvider(q)
    /\ decs' = DecsAfterCancel(streamPromises \ q.streamPromises,
                               activeRequestCount)
    /\ teardowns' = [t \in Tokens |->
                       teardowns[t] +
                       (IF t \in streamPromises \ q.streamPromises
                        THEN 1 ELSE 0)]
    /\ lastOp' = [op |-> op, token |-> 0, cancelled |-> streamPromises]
    /\ UNCHANGED <<created, genPc, strmPc, chunks, otherInFlight>>
    /\ UNCHANGED notListenerVars

\* _onKeyDown
KeyDown(key) ==
    /\ ~disposed
    /\ IF key = "Escape"
       THEN Handled("escape", onCancelEvent(Provider))
       ELSE Handled("key", Provider)
    /\ UNCHANGED listenerVars

\* _onFocusOut: with a session registered the 100 ms timer is armed.
FocusOut ==
    /\ ~disposed
    /\ focusTimers < MaxFocusTimers
    /\ Handled("focusOut", Provider)
    /\ focusTimers' = IF Cardinality(streamPromises) > 0
                      THEN focusTimers + 1 ELSE focusTimers
    /\ UNCHANGED <<currentNotebook, disposed>>

\* The callback of the timer of _onFocusOut.
FocusTimer ==
    /\ focusTimers > 0
    /\ focusTimers' = focusTimers - 1
    /\ Handled("focusTimer", onCancelEvent(Provider))
    /\ UNCHANGED <<currentNotebook, disposed>>

\* _onContentChanged, connected to the model of the current notebook.
ContentChanged ==
    /\ currentNotebook # 0
    /\ Handled("contentChanged", onCancelEvent(Provider))
    /\ UNCHANGED listenerVars

\* _onActiveCellChanged, connected to the current notebook.
ActiveCellChanged ==
    /\ currentNotebook # 0
    /\ Handled("activeCellChanged", onCancelEvent(Provider))
    /\ UNCHANGED listenerVars

\* _onShellChanged: newValue is a notebook panel or another widget (0).
ShellChanged(newValue) ==
    /\ ~disposed
    /\ Handled("shellChanged", onCancelEvent(Provider))
    /\ currentNotebook' = IF newValue # 0 THEN newValue ELSE currentNotebook
    /\ UNCHANGED <<focusTimers, disposed>>

\* dispose()
Dispose ==
    /\ Handled("dispose", cancelAllStreams(Provider))
    /\ currentNotebook' = 0
    /\ disposed' = TRUE
    /\ UNCHANGED focusTimers

ListenerNext ==
    \/ Fetch
    \/ \E token \in Tokens : StreamCall(token)
    \/ \E token \in Tokens : GenStart(token)
    \/ \E token \in Tokens : GenFail(token)
    \/ \E token \in Tokens : GenChunk(token)
    \/ \E token \in Tokens : StreamEnd(token)
    \/ \E token \in Tokens : Timeout(token)
    \/ OtherStart
    \/ OtherStop
    \/ \E key \in Keys : KeyDown(key)
    \/ FocusOut
    \/ FocusTimer
    \/ ContentChanged
    \/ ActiveCellChanged
    \/ \E newValue \in {0} \cup Notebooks : ShellChanged(newValue)
    \/ Dispose

SpecListeners == ProvInit /\ [][ListenerNext]_vars

\* C38: each cancellation event (Escape, the timer of a focus-out, a content
\* change, an active-cell change, a shell change, dispose) leaves the
\* registry empty with every session that was registered aborted; with no
\* session registered it aborts nothing and leaves the counter as it was.
C38_EventsCancelEverySession ==
    [][lastOp'.op \in CancelEvents =>
         /\ streamPromises' = {}
         /\ \A t \in streamPromises : aborted'[t]
         /\ streamPromises = {} =>
               /\ aborted' = aborted
               /\ activeRequestCount' = activeRequestCount]_vars

\* The timer of a focus-out has found a session and cancelled it.
C38_Witness ==
    /\ lastOp.op = "focusTimer"
    /\ lastOp.cancelled # {}
    /\ streamPromises = {}
    /\ \A t \in lastOp.cancelled : aborted[t]

\* An event has found no session while another request held the counter.
C38_WitnessNoSession ==
    /\ lastOp.op \in CancelEvents
    /\ lastOp.cancelled = {}
    /\ activeRequestCount > 0

\* =========================================================================
\* The marker loop of notebookMigrationStreaming, step by step
\* (service/migration.ts)
\* =========================================================================

MaxLoopChunks == 3

\* The chunks a stream is made of: whole markers, several markers, markers
\* cut in pieces, white space and content.
LoopChunks ==
    {Marker(0) \o <<"x">>,
     Marker(1),
     Marker(1) \o Marker(0),
     Marker(0) \o <<" ", "\n">> \o Marker(1) \o <<"y">>,
     <<"y">> \o Marker(7) \o <<"#", "#">>,
     <<"#", "#">> \o Marker(1) \o Marker(1) \o Marker(0),
     NB_CELL_MARKER_PREFIX,
     <<"1">>,
     <<"\n">>,
     <<"x", " ">>}

\* The matches of NB_CELL_ID_REGEX in s.
CountMarkers(s) ==
    Cardinality({k \in 0..(Len(s) - 1) : CellIdMatchLen(s, k) > 0})

\* One iteration of "while (markerPos !== -1)" on the locals d, markerPos
\* being the position of a marker: the locals after it, and whether it left
\* the loop with 'break'.
MarkerIteration(d) ==
    LET markerPos == SearchCellId(d.buffer)
        cur == d.currentCellIndex
        map2 == IF cur # -1
                THEN MapSet(d.cellContentMap, cur,
                            MapGet(d.cellContentMap, cur)
                              \o Substring2(d.buffer, 0, markerPos))
                ELSE d.cellContentMap
        upd == IF cur # -1
               THEN updateCellSafely(d.cells, cur, MapGet(map2, cur))
               ELSE [cells |-> d.cells, wrote |-> <<>>]
        newIndex == parseCellIndex(Substring(d.buffer, markerPos))
    IN  IF newIndex # -1
        THEN [broke |-> FALSE,
              d |-> [currentCellIndex |-> newIndex,
                     buffer |-> TrimStart(ReplaceCellId(
                                  Substring(d.buffer, markerPos))),
                     cellContentMap |-> map2,
                     cells |-> upd.cells,
                     writes |-> d.writes \o upd.wrote]]
        ELSE [broke |-> TRUE,
              d |-> [d EXCEPT !.cellContentMap = map2, !.cells = upd.cells,
                              !.writes = d.writes \o upd.wrote]]

\* All the variables of the other components.
notLoopVars ==
    <<activeRequestCount, migVars, provVars, sseVars, migs, bufVars, sbVars,
      noteVars, cellVars, nbVars, compVars, timeoutVars, promptVars,
      autoVars, listenerVars>>

LoopInit ==
    /\ LoopIdle
    /\ activeRequestCount = 0
    /\ MigIdle /\ cells = InitCells
    /\ ProvIdle /\ SseIdle /\ ConcIdle /\ BufIdle /\ SbIdle /\ NoteIdle
    /\ CellIdle /\ NbIdle /\ CompIdle /\ TimeoutIdle /\ PromptIdle
    /\ AutoIdle /\ ListenerIdle

\* A chunk arrives: 'buffer += chunk.migratedCode', the size check, then
\* 'markerPos = buffer.search(NB_CELL_ID_REGEX)'.
LoopChunk(chunk) ==
    /\ lpPc = "await"
    /\ lpChunks < MaxLoopChunks
    /\ Len(lpD.buffer \o chunk) <= MAX_BUFFER_SIZE
    /\ lpD' = [lpD EXCEPT !.buffer = @ \o chunk]
    /\ lpStart' = lpD'
    /\ lpIters' = 0
    /\ lpChunks' = lpChunks + 1
    /\ lpPc' = "loop"
    /\ UNCHANGED notLoopVars

\* The loop condition holds and the body runs once.
LoopIteration ==
    /\ lpPc = "loop"
    /\ SearchCellId(lpD.buffer) # -1
    /\ \E r \in {MarkerIteration(lpD)} :
          /\ lpD' = r.d
          /\ lpPc' = IF r.broke THEN "broke" ELSE "loop"
    /\ lpIters' = lpIters + 1
    /\ UNCHANGED <<lpStart, lpChunks>>
    /\ UNCHANGED notLoopVars

\* The loop is left, by its condition or by 'break'; the partial content of
\* the current cell is pushed and the next chunk awaited.
LoopExit ==
    /\ \/ lpPc = "broke"
       \/ lpPc = "loop" /\ SearchCellId(lpD.buffer) = -1
    /\ lpD' = IF lpD.currentCellIndex # -1 /\ Len(lpD.buffer) > 0
              THEN LET upd == updateCellSafely(
                                lpD.cells, lpD.currentCellIndex,
                                MapGet(lpD.cellContentMap,
                                       lpD.currentCellIndex) \o lpD.buffer)
                   IN  [lpD EXCEPT !.cells = upd.cells,
                                   !.writes = lpD.writes \o upd.wrote]
              ELSE lpD
    /\ lpPc' = "await"
    /\ UNCHANGED <<lpStart, lpIters, lpChunks>>
    /\ UNCHANGED notLoopVars

\* The stream ends: the last cell is finalized.
LoopStreamEnd ==
    /\ lpPc = "await"
    /\ lpD' = FinalizeLastCell(lpD)
    /\ lpPc' = "ended"
    /\ UNCHANGED <<lpStart, lpIters, lpChunks>>
    /\ UNCHANGED notLoopVars

LoopNext ==
    \/ \E chunk \in LoopChunks : LoopChunk(chunk)
    \/ LoopIteration
    \/ LoopExit
    \/ LoopStreamEnd

SpecLoop == LoopInit /\ [][LoopNext]_vars

\* The steps of the loop compute what MarkerLoop and ProcessChunk compute.
LoopAgreesWithMarkerLoop ==
    /\ lpPc = "loop" => MarkerLoop(lpD) = MarkerLoop(lpStart)
    /\ lpPc = "ended" =>
          \E cs \in UNION {[1..n -> LoopChunks] : n \in 0..MaxLoopChunks} :
              lpD = StreamAll(InitCells, cs)

\* C39: the processing of a chunk terminates: every iteration of the marker
\* loop leaves the buffer strictly shorter, the loop makes at most as many
\* iterations as the buffer held complete markers when it began, and after
\* that many iterations its condition is false.
C39_MarkerLoopTerminates ==
    /\ [][lpIters' = lpIters + 1 =>
            Len(lpD'.buffer) < Len(lpD.buffer)]_vars
    /\ [](lpIters <= CountMarkers(lpStart.buffer))
    /\ [](lpPc = "loop" /\ lpIters = CountMarkers(lpStart.buffer) =>
            SearchCellId(lpD.buffer) = -1)

\* A chunk has completed a buffer of three markers and the loop has ended
\* after three iterations.
C39_Witness ==
    /\ lpPc = "await"
    /\ lpIters = 3
    /\ CountMarkers(lpStart.buffer) = 3

====
